---- MODULE Spec2Model ----
(***************************************************************************)
(* mygithelper: the get / update / reset commands run against one managed  *)
(* repository (working tree, local branches, origin) and one stale sibling *)
(* directory of its group.  The update pipeline (updateCmd.updateRepo) is   *)
(* modelled step by step, one action per external command it issues.       *)
(***************************************************************************)
EXTENDS Integers, Sequences, FiniteSets, TLC

\* ------------------------------------------------------------------ bounds
\* Number of commands run one after another on the repository.
MaxRuns == 2
\* Number of times the tools' upstream data (latest pins, latest
\* dependency versions) may move on.
MaxEnv == 1
\* Number of commands run one after another when get and reset are among
\* them.
MaxCmds == 1
\* Number of lines in a group's repository list.
MaxList == 2

\* Longest test.yml (in tokens) given to the version-matrix rewrite.
MaxText == 2

\* Number of update runs in a series of re-runs on one repository.
MaxRetry == 3

\* ------------------------------------------------------------- file model
\* The files of a repository the commands can observe or touch:
\*   ty  .github/workflows/test.yml      wf  another workflow file
\*   gm  go.mod                          gs  go.sum
\*   src a tracked source file           usr a file the user created
Files == {"ty", "wf", "gm", "gs", "src", "usr"}

\* A file's content is a sequence of tokens <<kind, n>>; an absent file is
\* the one-token content Absent.
Absent == << <<"absent", 0>> >>

TextTok == <<"text", 0>>
\* `go-version: [<list>]`: n = 0 some other list, n = 1 the list
\* `[<prev>.x, <current>.x]`.
GoVersionList(n) == <<"go-version", n>>
\* `uses: action@ref`: n = 0 an unpinned tag, n = k + 1 pinned to the hash
\* the pinning tool resolves at upstream state k.
Uses(n) == <<"uses", n>>
\* go.mod `go` directive: n = 0 an older version, n = 1 PrevVersion.
GoDirective(n) == <<"go", n>>
\* go.mod requirement at version n, and its go.sum checksum line.
Require(n) == <<"require", n>>
Checksum(n) == <<"sum", n>>
UserEdit == <<"user", 0>>

Kinds == <<"text", "go-version", "uses", "go", "require", "sum", "user">>

KindIndex(k) == CHOOSE i \in 1..Len(Kinds) : Kinds[i] = k

\* The byte value a token stands for (distinct tokens, distinct bytes).
Byte(tok) == KindIndex(tok[1]) * 8 + tok[2]

AbsentTree == [f \in Files |-> Absent]

\* ------------------------------------------------------------ branch names
\* A branch name is a sequence of strings.
Main == <<"main">>
Master == <<"master">>
Trunk == <<"trunk">>
OriginPrefix == "refs/remotes/origin/"
NoRef == <<"">>
NoBranch == <<"">>

VARIABLES
    \* --- the repository on disk
    exists,        \* the repository directory exists (is cloned)
    branches,      \* local branches: name -> committed tree
    cur,           \* the checked-out branch
    wt,            \* working tree: file -> content
    staged,        \* `git add -A` has staged the working tree
    symref,        \* refs/remotes/origin/HEAD as recorded locally, or NoRef
    remoteHead,    \* name of the remote's default branch
    stale,         \* the stale sibling directory: "none", "clean", "dirty"
    \* --- the remote and the tools' upstream
    origin,        \* tree of the remote default branch
    remote,        \* remote proposal branches: name -> tree
    prs,           \* review requests opened, in order (branch names)
    env,           \* upstream state the pinning tool and `go get` resolve
    \* --- the running command
    run,           \* number of commands started
    cmd,           \* "get", "update", "reset" or "none"
    pc,            \* position inside the command, "idle" between commands
    outcome,       \* result of the last command, "running" while it runs
    failedAt,      \* the stage that returned the error, or "none"
    defaultBranch, \* updateRepo's local defaultBranch
    updates,       \* updateRepo's local updates
    branchName,    \* updateRepo's local branchName
    \* --- observation (history) variables
    trace,         \* operations the current command has issued, in order
    faulted,       \* an external command of the current command failed
    prev,          \* the previous command: its outcome, the createPR step
                   \* that failed in it (if any), whether a command failed
    drift,         \* what happened since the last command ended: a subset
                   \* of {"upstream", "merge", "reclone"}
    driftBefore,   \* what happened between the previous command and this
    start,         \* the repository and the remote at command start
    gate,          \* what held at the gate and at the dedup check of the
                   \* current command
    idLog,         \* every generateBranchName call: which candidate files
                   \* were detected as changed, their bytes, the result
    \* --- the gitjoin version of the update command
    force,         \* updateCmd.Force (--force was given)
    goVersion,     \* cmd.GoVersion != "" (the base directory has a go.mod)
    result,        \* runUpdateSteps' updateResult
    changed,       \* (history) the steps of the current run that altered a
                   \* file of the working tree
    \* --- a group of repositories (the fleet)
    repoList,      \* the lines of the group's repository list, in order
    groupDir,      \* the group directory: entry name -> kind of entry
    pos,           \* number of list lines the loop has gone through
    expected,      \* getCmd.processGroup's expectedRepos
    epos,          \* number of directory entries removeStaleRepos has seen
    opLog,         \* operations on the group's entries: <<operation, name>>
    \* --- single functions applied to drawn inputs
    version,       \* cmd.GoVersion: the parts of the version string
    prevVersion,   \* cmd.PrevVersion
    text,          \* test.yml as committed: a sequence of <<kind, versions>>
    written,       \* test.yml on disk after updateTestYml
    ret,           \* what updateTestYml did and returned
    sum,           \* h.Sum64(): 16 hexadecimal digits, most significant first
    \* --- the process
    proc           \* main: os.Args[1], how far main has got, whether the
                   \* configuration was loaded, what was written to stderr
                   \* and the exit status

repoVars == <<exists, branches, cur, wt, staged, symref, remoteHead>>
remoteVars == <<origin, remote, prs>>
localVars == <<defaultBranch, updates, branchName>>
ctlVars == <<run, cmd, prev, driftBefore, start>>
joinVars == <<force, goVersion, result, changed>>
fleetVars == <<repoList, groupDir, pos, expected, epos, opLog>>
fnVars == <<version, prevVersion, text, written, ret, sum>>
extVars == <<joinVars, fleetVars, fnVars, proc>>
vars == <<exists, branches, cur, wt, staged, symref, remoteHead, stale,
          origin, remote, prs, env, run, cmd, pc, outcome, failedAt,
          defaultBranch, updates, branchName, trace, faulted, prev, drift,
          driftBefore, start, gate, idLog, extVars>>

\* ---------------------------------------------------------- git semantics
HeadTree == branches[cur]

\* `git status --porcelain <paths>`: the entries reported for the paths (a
\* path is reported when its working-tree content differs from HEAD, staged
\* or not, tracked or untracked).
Status(paths) == {f \in paths : wt[f] # HeadTree[f]}

\* `git checkout .` and `git reset --hard`: every tracked file is restored
\* from HEAD; a file HEAD does not know is left as it is.
RestoreTracked(w, h) == [f \in Files |-> IF h[f] # Absent THEN h[f] ELSE w[f]]

\* `git checkout <branch>`: refused when a file that differs between the two
\* commits carries a local change that is not the target's content.
CheckoutConflicts(w, h, t) ==
    {f \in Files : h[f] # t[f] /\ w[f] # h[f] /\ w[f] # t[f]}

CheckoutTree(w, h, t) ==
    [f \in Files |-> IF h[f] # t[f] /\ w[f] = h[f] THEN t[f] ELSE w[f]]

\* Extension of a function by one pair.
With(f, k, v) == [x \in DOMAIN f \cup {k} |-> IF x = k THEN v ELSE f[x]]

Max(a, b) == IF a >= b THEN a ELSE b

\* ------------------------------------------------------------ pure helpers
\* main.go helpers (unnamed/part_000, second program).

\* A guard that never reports a dirty tree.
checkUncommitted_Never == FALSE

\* checkUncommitted: dirty iff the full status output is not empty.
checkUncommitted == Status(Files) # {}

\* A change detector that reports test.yml as changed whatever its state.
testYmlChanged_Always(ok) == TRUE

\* testYmlChanged / goModChanged: a failing status query counts as "no".
testYmlChanged(ok) == ok /\ Status({"ty"}) # {}

goModChanged(ok) == ok /\ Status({"gm", "gs"}) # {}

hasTestYml == wt["ty"] # Absent

hasWorkflowsDir == wt["ty"] # Absent \/ wt["wf"] # Absent

hasGoMod == wt["gm"] # Absent

\* getDefaultBranch: the recorded pointer with its prefix trimmed, else a
\* branch named main, else a branch named master, else main unverified.
TrimPrefix(ref, prefix) ==
    IF Len(ref) > 0 /\ ref[1] = prefix THEN Tail(ref) ELSE ref

\* A default-branch lookup that probes main and master before the pointer.
getDefaultBranch_ProbeFirst ==
    IF Main \in DOMAIN branches THEN Main
    ELSE IF Master \in DOMAIN branches THEN Master
    ELSE IF symref # NoRef THEN TrimPrefix(symref, OriginPrefix)
    ELSE Main

getDefaultBranch ==
    IF symref # NoRef THEN TrimPrefix(symref, OriginPrefix)
    ELSE IF Main \in DOMAIN branches THEN Main
    ELSE IF Master \in DOMAIN branches THEN Master
    ELSE Main

\* A dedup query that never finds the branch.
branchExistsRemote_Never(ok, branch) == FALSE

\* A check that reads a failed query as "the branch may exist".
branchExistsRemote_FailExists(ok, branch) == ~ok \/ branch \in DOMAIN remote

\* branchExistsRemote: `git ls-remote --heads origin <branch>`; a failing
\* query counts as "does not exist".
branchExistsRemote(ok, branch) == ok /\ branch \in DOMAIN remote

\* updateTestYml: every `go-version: [...]` list is replaced by the list of
\* the previous and the current version; all other text is kept.
RewriteTok(tok) == IF tok[1] = "go-version" THEN GoVersionList(1) ELSE tok

updateTestYml(content) == [i \in 1..Len(content) |-> RewriteTok(content[i])]

\* runGhat (`ghat swot -d .`): unpinned action references are pinned to the
\* hash upstream resolves now.
PinTok(tok) == IF tok = Uses(0) THEN Uses(env + 1) ELSE tok

runGhat(content) ==
    IF content = Absent THEN Absent
    ELSE [i \in 1..Len(content) |-> PinTok(content[i])]

\* `go mod edit -go <PrevVersion>`.
GoEditTok(tok) == IF tok[1] = "go" THEN GoDirective(1) ELSE tok

goModEdit(content) == [i \in 1..Len(content) |-> GoEditTok(content[i])]

\* `go get -t -u ./...`: requirements move to the latest version; go.sum
\* holds the checksums of the requirements.
GoGetTok(tok) == IF tok[1] = "require" THEN Require(Max(tok[2], env)) ELSE tok

goGetMod(content) == [i \in 1..Len(content) |-> GoGetTok(content[i])]

goGetSum(content) ==
    LET reqs == {i \in 1..Len(content) : content[i][1] = "require"}
    IN  IF reqs = {} THEN wt["gs"]
        ELSE LET i == CHOOSE j \in reqs : TRUE
             IN  << Checksum(content[i][2]) >>

\* ------------------------------------------------------- proposal identity
\* xxhash.Sum64 of the bytes written: modelled as a collision-free 64-bit
\* fingerprint, kept as its 16 hexadecimal digits (most significant first):
\* the digits of the bytes, cut to the low 64 bits.
Nibbles(tok) == << Byte(tok) \div 16, Byte(tok) % 16 >>

RECURSIVE Digest(_)
Digest(bytes) ==
    IF bytes = <<>> THEN <<>> ELSE Nibbles(Head(bytes)) \o Digest(Tail(bytes))

Low64(digits) ==
    IF Len(digits) >= 16
    THEN SubSeq(digits, Len(digits) - 15, Len(digits))
    ELSE [i \in 1..16 |-> IF i <= 16 - Len(digits) THEN 0
                          ELSE digits[i - (16 - Len(digits))]]

Sum64(bytes) == Low64(Digest(bytes))

HexDigits == <<"0", "1", "2", "3", "4", "5", "6", "7",
               "8", "9", "a", "b", "c", "d", "e", "f">>

HexChar(d) == HexDigits[d + 1]

\* fmt's %x of an unsigned number: lower-case hex, no leading zeros (a
\* single "0" for zero).
RECURSIVE Hex(_)
Hex(digits) ==
    IF Len(digits) > 1 /\ Head(digits) = 0 THEN Hex(Tail(digits))
    ELSE [i \in 1..Len(digits) |-> HexChar(digits[i])]

\* The bytes generateBranchName feeds to the hash: test.yml if it changed,
\* then go.mod if go.mod or go.sum changed.
HashInput(okTy, okGm) ==
    (IF testYmlChanged(okTy) THEN wt["ty"] ELSE <<>>)
        \o (IF goModChanged(okGm) THEN wt["gm"] ELSE <<>>)

\* An identity that writes a marker of the file before each file's bytes.
generateBranchName_Marked(okTy, okGm) ==
    <<"mygithelper/update-">>
        \o Hex(Sum64(
              (IF testYmlChanged(okTy) THEN << Uses(0) >> \o wt["ty"]
               ELSE <<>>)
              \o (IF goModChanged(okGm) THEN << Require(0) >> \o wt["gm"]
                  ELSE <<>>)))

\* An identity that also hashes the number of the run.
generateBranchName_Salted(okTy, okGm) ==
    <<"mygithelper/update-">>
        \o Hex(Sum64(HashInput(okTy, okGm) \o << <<"text", run>> >>))

generateBranchName(okTy, okGm) ==
    <<"mygithelper/update-">> \o Hex(Sum64(HashInput(okTy, okGm)))

\* -------------------------------------------------------------------- Init
\* A committed tree: test.yml, another workflow file, go.mod, go.sum, and
\* the tracked source file.
Tree(ty, wf, gm, gs) ==
    [f \in Files |->
        CASE f = "ty" -> ty
          [] f = "wf" -> wf
          [] f = "gm" -> gm
          [] f = "gs" -> gs
          [] f = "src" -> << TextTok >>
          [] f = "usr" -> Absent]

OldMatrix == << GoVersionList(0) >>
NewMatrix == << GoVersionList(1) >>
NewMatrixUnpinned == << GoVersionList(1), Uses(0) >>
Unpinned == << Uses(0) >>
OldGoMod == << GoDirective(0), Require(0) >>
NewGoMod == << GoDirective(1), Require(0) >>
GoSum == << Checksum(0) >>

\* The repositories the commands are run on: every kind of file the steps
\* look for is present or absent, up to date or not, alone and together.
InitTrees ==
    { Tree(Absent, Absent, Absent, Absent),
      Tree(NewMatrix, Absent, NewGoMod, GoSum),
      Tree(OldMatrix, Absent, Absent, Absent),
      Tree(NewMatrixUnpinned, Absent, Absent, Absent),
      Tree(Absent, Unpinned, Absent, Absent),
      Tree(NewMatrix, Unpinned, NewGoMod, GoSum),
      Tree(OldMatrix, Unpinned, Absent, Absent),
      Tree(Absent, Absent, OldGoMod, GoSum),
      Tree(Absent, Absent, NewGoMod, Absent),
      Tree(OldMatrix, Absent, OldGoMod, GoSum),
      Tree(OldMatrix, Unpinned, NewGoMod, Absent),
      Tree(NewMatrixUnpinned, Unpinned, OldGoMod, GoSum) }

\* The remote's default branch and whether the clone recorded the pointer.
HeadInit == {<<Main, TRUE>>, <<Main, FALSE>>, <<Master, FALSE>>,
             <<Trunk, FALSE>>}

SymrefOf(name) == <<OriginPrefix>> \o name

\* What the user left in the working tree before the first command.
UserTree(tree, kind) ==
    CASE kind = "clean" -> tree
      [] kind = "modified" -> [tree EXCEPT !["src"] = << UserEdit >>]
      [] kind = "untracked" -> [tree EXCEPT !["usr"] = << UserEdit >>]

NoPrev == [outcome |-> "none", failedAt |-> "none", faulted |-> FALSE]

\* The repository, the stale sibling and the remote as a command finds them.
Snapshot(st) ==
    [wt |-> wt, cur |-> cur, exists |-> exists, stale |-> st,
     mods |-> Status(Files),
     untracked |-> {f \in Status(Files) : HeadTree[f] = Absent},
     branches |-> DOMAIN branches, remote |-> DOMAIN remote,
     prs |-> Len(prs)]

\* The repository the branch-resolution variants start from: a test.yml
\* with an outdated version matrix and nothing else to update.
PlainTree == Tree(OldMatrix, Absent, Absent, Absent)

NoGate == [detected |-> FALSE, diff |-> {}, reached |-> FALSE,
           updates |-> <<>>, remoteHad |-> FALSE, differs |-> {}]

\* updateResult{}: no flag set.
NoResult == [UpdatedGoVersions |-> FALSE, UpdatedGitHubActions |-> FALSE,
             UpdatedGoMod |-> FALSE]

\* The iterator version has no --force flag and requires the Go version.
NoJoin ==
    /\ force = FALSE
    /\ goVersion = TRUE
    /\ result = NoResult
    /\ changed = {}

\* No group is being processed.
NoFleet ==
    /\ repoList = <<>>
    /\ groupDir = <<>>
    /\ pos = 0
    /\ expected = {}
    /\ epos = 0
    /\ opLog = <<>>

\* No function input is drawn.
NoRet == [read |-> FALSE, wrote |-> FALSE, updated |-> FALSE, err |-> FALSE]

NoFn ==
    /\ version = <<>>
    /\ prevVersion = <<>>
    /\ text = <<>>
    /\ written = <<>>
    /\ ret = NoRet
    /\ sum = <<>>

\* The process before main has looked at its arguments.
NewProc ==
    [args |-> "unset", at |-> "start", cfg |-> "unread", stderr |-> "none",
     status |-> 0]

\* Nothing has run yet: no command, no proposal, upstream at its first state.
IdleInit ==
    /\ proc = NewProc
    /\ staged = FALSE
    /\ stale = "none"
    /\ remote = <<>>
    /\ prs = <<>>
    /\ env = 0
    /\ run = 0
    /\ cmd = "none"
    /\ outcome = "none"
    /\ failedAt = "none"
    /\ defaultBranch = NoBranch
    /\ updates = <<>>
    /\ branchName = NoBranch
    /\ trace = <<>>
    /\ faulted = FALSE
    /\ prev = NoPrev
    /\ drift = {}
    /\ driftBefore = {}
    /\ start = Snapshot("none")
    /\ gate = NoGate
    /\ idLog = {}

\* One repository, its remote, and no command started yet.
RepoInit ==
    /\ \E tree \in InitTrees, h \in HeadInit,
          kind \in {"clean", "modified", "untracked"}, cloned \in BOOLEAN :
              /\ h = <<Main, TRUE>> \/ (tree = PlainTree /\ kind = "clean")
              /\ origin = tree
              /\ remoteHead = h[1]
              /\ exists = cloned
              /\ IF cloned
                 THEN /\ branches = (h[1] :> tree)
                      /\ cur = h[1]
                      /\ wt = UserTree(tree, kind)
                      /\ symref = IF h[2] THEN SymrefOf(h[1]) ELSE NoRef
                 ELSE /\ kind = "clean"
                      /\ branches = (NoBranch :> AbsentTree)
                      /\ cur = NoBranch
                      /\ wt = AbsentTree
                      /\ symref = NoRef
    /\ pc = "idle"
    /\ IdleInit

Init == RepoInit /\ NoJoin /\ NoFleet /\ NoFn

\* ------------------------------------------------------- command skeleton
\* The command returns: o is its result, stage the place of the error.
End(o, stage) ==
    /\ pc' = "idle"
    /\ outcome' = o
    /\ failedAt' = stage

Goto(p) ==
    /\ pc' = p
    /\ UNCHANGED <<outcome, failedAt>>

Issue(op) == trace' = Append(trace, op)

Fault(ok) == faulted' = (faulted \/ ~ok)

\* The steps of createPR that can return an error before the checkout back.
PublishStages == {"branch", "add", "commit", "push", "pr"}

\* main: one of the commands is started (os.Args[1]), the bound-th at most;
\* for get, st is the stale sibling directory found in the group directory.
StartCmd(c, st, bound) ==
    /\ pc = "idle"
    /\ run < bound
    /\ run' = run + 1
    /\ cmd' = c
    /\ pc' = c
    /\ outcome' = "running"
    /\ failedAt' = "none"
    /\ stale' = st
    /\ c # "get" => st = "none"
    /\ prev' = [outcome |-> outcome,
                failedAt |-> IF failedAt \in PublishStages THEN failedAt
                             ELSE "none",
                faulted |-> faulted]
    /\ driftBefore' = drift
    /\ drift' = {}
    /\ start' = Snapshot(st)
    /\ defaultBranch' = NoBranch
    /\ updates' = <<>>
    /\ branchName' = NoBranch
    /\ trace' = <<>>
    /\ faulted' = FALSE
    /\ gate' = NoGate
    /\ UNCHANGED <<repoVars, remoteVars, env, idLog, extVars>>

\* --------------------------------------------------------- update command
\* updateCmd.Run: the tool checks, then the repository is run through
\* updateRepo unless its directory does not exist.
UpdateRun(depsOk) ==
    /\ pc = "update"
    /\ Fault(depsOk)
    /\ IF ~depsOk THEN End("Error", "deps")
       ELSE IF ~exists THEN End("NotCloned", "none")
       ELSE Goto("guard")
    /\ UNCHANGED <<repoVars, remoteVars, env, stale, localVars, ctlVars,
                   trace, drift, gate, idLog, extVars>>

\* An updateRepo that starts without looking at the working tree.
Guard_Off(ok) ==
    /\ pc = "guard"
    /\ ok
    /\ Goto("resolve")
    /\ UNCHANGED <<repoVars, remoteVars, env, stale, localVars, ctlVars,
                   trace, faulted, drift, gate, idLog, extVars>>

\* updateRepo: the Workspace Guard (checkUncommitted).
Guard(ok) ==
    /\ pc = "guard"
    /\ Fault(ok)
    /\ IF ~ok THEN End("Error", "status")
       ELSE IF checkUncommitted THEN End("Error", "dirty")
       ELSE Goto("resolve")
    /\ UNCHANGED <<repoVars, remoteVars, env, stale, localVars, ctlVars,
                   trace, drift, gate, idLog, extVars>>

\* `git checkout <target>` issued from the current state.
CanCheckout(target) ==
    /\ target \in DOMAIN branches
    /\ CheckoutConflicts(wt, HeadTree, branches[target]) = {}

DoCheckout(target) ==
    /\ cur' = target
    /\ wt' = CheckoutTree(wt, HeadTree, branches[target])
    /\ UNCHANGED <<exists, branches, staged, symref, remoteHead>>

\* An updateRepo that pulls on whatever branch is checked out.
ResolveBranch_NoCheckout(okRev, okCo) ==
    /\ pc = "resolve"
    /\ okRev
    /\ okCo
    /\ defaultBranch' = getDefaultBranch
    /\ Goto("pull")
    /\ UNCHANGED <<updates, branchName, repoVars, trace, faulted>>
    /\ UNCHANGED <<remoteVars, env, stale, ctlVars, drift, gate, idLog, extVars>>

\* updateRepo: default branch, current branch, checkout when they differ.
ResolveBranch(okRev, okCo) ==
    /\ pc = "resolve"
    /\ defaultBranch' = getDefaultBranch
    /\ UNCHANGED <<updates, branchName>>
    /\ IF ~okRev
       THEN /\ okCo
            /\ Fault(FALSE)
            /\ End("Error", "rev-parse")
            /\ UNCHANGED <<repoVars, trace>>
       ELSE IF cur # getDefaultBranch
       THEN /\ Issue("checkout")
            /\ Fault(okCo)
            /\ IF okCo /\ CanCheckout(getDefaultBranch)
               THEN DoCheckout(getDefaultBranch) /\ Goto("pull")
               ELSE End("Error", "checkout") /\ UNCHANGED repoVars
       ELSE /\ okCo
            /\ Goto("pull")
            /\ UNCHANGED <<repoVars, trace, faulted>>
    /\ UNCHANGED <<remoteVars, env, stale, ctlVars, drift, gate, idLog, extVars>>

\* `git pull` on the checked-out branch: fast-forward to the remote default
\* branch; refused when a local file is in the way.
CanPull == CheckoutConflicts(wt, HeadTree, origin) = {}

DoPull ==
    /\ branches' = [branches EXCEPT ![cur] = origin]
    /\ wt' = CheckoutTree(wt, HeadTree, origin)
    /\ UNCHANGED <<exists, cur, staged, symref, remoteHead>>

\* An updateRepo that goes on to the steps when git pull failed.
Pull_IgnoreError(ok) ==
    /\ pc = "pull"
    /\ Issue("pull")
    /\ Fault(ok)
    /\ IF ok /\ CanPull
       THEN DoPull /\ Goto("step1")
       ELSE Goto("step1") /\ UNCHANGED repoVars
    /\ UNCHANGED <<remoteVars, env, stale, localVars, ctlVars, drift, gate,
                   idLog, extVars>>

Pull(ok) ==
    /\ pc = "pull"
    /\ Issue("pull")
    /\ Fault(ok)
    /\ IF ok /\ CanPull
       THEN DoPull /\ Goto("step1")
       ELSE End("Error", "pull") /\ UNCHANGED repoVars
    /\ UNCHANGED <<remoteVars, env, stale, localVars, ctlVars, drift, gate,
                   idLog, extVars>>

\* runUpdateSteps, step by step.  A step whose precondition is absent is
\* skipped; a failing step returns the error.
StepFrame ==
    UNCHANGED <<exists, branches, cur, staged, symref, remoteHead, remoteVars,
                env, stale, localVars, ctlVars, drift, gate, idLog, extVars>>

\* Step 1: updateTestYml writes test.yml only when the rewrite differs.
Step1(ok) ==
    /\ pc = "step1"
    /\ StepFrame
    /\ IF hasTestYml
       THEN /\ Issue("step1")
            /\ IF updateTestYml(wt["ty"]) = wt["ty"]
               THEN ok /\ Goto("step2") /\ UNCHANGED <<wt, faulted>>
               ELSE /\ Fault(ok)
                    /\ IF ok
                       THEN /\ wt' = [wt EXCEPT !["ty"] = updateTestYml(@)]
                            /\ Goto("step2")
                       ELSE End("Error", "step1") /\ UNCHANGED wt
       ELSE ok /\ Goto("step2") /\ UNCHANGED <<wt, trace, faulted>>

\* Step 2: the pinning tool over the workflows directory.
Step2(ok) ==
    /\ pc = "step2"
    /\ StepFrame
    /\ IF hasWorkflowsDir
       THEN /\ Issue("step2")
            /\ Fault(ok)
            /\ IF ok
               THEN /\ wt' = [wt EXCEPT !["ty"] = runGhat(@),
                                        !["wf"] = runGhat(@)]
                    /\ Goto("step3")
               ELSE End("Error", "step2") /\ UNCHANGED wt
       ELSE ok /\ Goto("step3") /\ UNCHANGED <<wt, trace, faulted>>

\* A step 3 that puts the tracked files back when the go tool fails.
Step3_Rollback(ok) ==
    /\ pc = "step3"
    /\ StepFrame
    /\ IF hasGoMod
       THEN /\ Issue("step3")
            /\ Fault(ok)
            /\ IF ok
               THEN /\ wt' = [wt EXCEPT !["gm"] = goModEdit(@)]
                    /\ Goto("step4")
               ELSE /\ End("Error", "step3")
                    /\ wt' = RestoreTracked(wt, HeadTree)
       ELSE ok /\ Goto("step4") /\ UNCHANGED <<wt, trace, faulted>>

\* Step 3: go mod edit -go PrevVersion.
Step3(ok) ==
    /\ pc = "step3"
    /\ StepFrame
    /\ IF hasGoMod
       THEN /\ Issue("step3")
            /\ Fault(ok)
            /\ IF ok
               THEN /\ wt' = [wt EXCEPT !["gm"] = goModEdit(@)]
                    /\ Goto("step4")
               ELSE End("Error", "step3") /\ UNCHANGED wt
       ELSE ok /\ Goto("step4") /\ UNCHANGED <<wt, trace, faulted>>

\* Step 4: go get -t -u ./...
Step4(ok) ==
    /\ pc = "step4"
    /\ StepFrame
    /\ IF hasGoMod
       THEN /\ Issue("step4")
            /\ Fault(ok)
            /\ IF ok
               THEN /\ wt' = [wt EXCEPT !["gm"] = goGetMod(@),
                                        !["gs"] = goGetSum(goGetMod(wt["gm"]))]
                    /\ Goto("detect")
               ELSE End("Error", "step4") /\ UNCHANGED wt
       ELSE ok /\ Goto("detect") /\ UNCHANGED <<wt, trace, faulted>>

\* Outcomes of the two status queries of the change detector (test.yml;
\* go.mod and go.sum): both answer, or one of them fails.
QueryFaults == {<<TRUE, TRUE>>, <<FALSE, TRUE>>, <<TRUE, FALSE>>}

\* updateRepo: the update list built from the change detector.
UpdateList(okTy, okGm) ==
    (IF testYmlChanged(okTy) THEN << "Go versions, GitHub Actions" >> ELSE <<>>)
        \o (IF goModChanged(okGm) THEN << "go.mod, dependencies" >> ELSE <<>>)

\* A gate that lets an empty update list through.
NoUpdates_Never(list) == FALSE

\* updateRepo: `len(updates) == 0`.
NoUpdates(list) == Len(list) = 0

\* updateRepo: the gate.  No update: "No changes to commit", return nil.
Detect(okTy, okGm) ==
    /\ pc = "detect"
    /\ updates' = UpdateList(okTy, okGm)
    /\ faulted' = (faulted \/ ~okTy \/ ~okGm)
    /\ IF NoUpdates(UpdateList(okTy, okGm))
       THEN End("NoOp", "none")
       ELSE Goto("genname")
    /\ gate' = [gate EXCEPT !.detected = TRUE, !.diff = Status(Files)]
    /\ UNCHANGED <<repoVars, remoteVars, env, stale, defaultBranch, branchName,
                   ctlVars, trace, drift, idLog, extVars>>

\* updateRepo: generateBranchName (with its own status queries).
GenName(okTy, okGm) ==
    /\ pc = "genname"
    /\ branchName' = generateBranchName(okTy, okGm)
    /\ faulted' = (faulted \/ ~okTy \/ ~okGm)
    /\ idLog' = idLog \cup
          {[tyChanged |-> testYmlChanged(okTy),
            gmChanged |-> goModChanged(okGm),
            ty |-> IF testYmlChanged(okTy) THEN wt["ty"] ELSE <<>>,
            gm |-> IF goModChanged(okGm) THEN wt["gm"] ELSE <<>>,
            name |-> generateBranchName(okTy, okGm)]}
    /\ Goto("dedup")
    /\ UNCHANGED <<repoVars, remoteVars, env, stale, defaultBranch, updates,
                   ctlVars, trace, drift, gate, extVars>>

\* updateRepo: the dedup check; an existing remote branch means
\* `git checkout .` and return nil.
Dedup(okLs, okCo) ==
    /\ pc = "dedup"
    /\ gate' = [gate EXCEPT
                   !.reached = TRUE,
                   !.updates = updates,
                   !.remoteHad = branchName \in DOMAIN remote,
                   !.differs =
                       IF branchName \in DOMAIN remote
                       THEN {f \in Status(Files) :
                                remote[branchName][f] # wt[f]}
                       ELSE {}]
    /\ IF branchExistsRemote(okLs, branchName)
       THEN /\ Issue("revert")
            /\ Fault(okCo)
            /\ IF okCo
               THEN /\ wt' = RestoreTracked(wt, HeadTree)
                    /\ End("Skipped", "none")
               ELSE End("Error", "revert") /\ UNCHANGED wt
       ELSE /\ okCo
            /\ Fault(okLs)
            /\ Goto("branch")
            /\ UNCHANGED <<wt, trace>>
    /\ UNCHANGED <<exists, branches, cur, staged, symref, remoteHead,
                   remoteVars, env, stale, localVars, ctlVars, drift, idLog, extVars>>

PublishFrame ==
    UNCHANGED <<env, stale, localVars, ctlVars, drift, gate, idLog, extVars>>

\* A createPR that resets an existing branch (git checkout -B).
CreateBranch_Force(ok) ==
    /\ pc = "branch"
    /\ Issue("branch")
    /\ Fault(ok)
    /\ PublishFrame
    /\ UNCHANGED remoteVars
    /\ IF ok
       THEN /\ branches' = With(branches, branchName, HeadTree)
            /\ cur' = branchName
            /\ Goto("add")
            /\ UNCHANGED <<exists, wt, staged, symref, remoteHead>>
       ELSE End("Error", "branch") /\ UNCHANGED repoVars

\* createPR: git checkout -b <branchName>.
CreateBranch(ok) ==
    /\ pc = "branch"
    /\ Issue("branch")
    /\ Fault(ok)
    /\ PublishFrame
    /\ UNCHANGED remoteVars
    /\ IF ok /\ branchName \notin DOMAIN branches
       THEN /\ branches' = With(branches, branchName, HeadTree)
            /\ cur' = branchName
            /\ Goto("add")
            /\ UNCHANGED <<exists, wt, staged, symref, remoteHead>>
       ELSE End("Error", "branch") /\ UNCHANGED repoVars

\* createPR: git add -A.
Stage(ok) ==
    /\ pc = "add"
    /\ Issue("add")
    /\ Fault(ok)
    /\ PublishFrame
    /\ UNCHANGED remoteVars
    /\ IF ok
       THEN /\ staged' = TRUE
            /\ Goto("commit")
            /\ UNCHANGED <<exists, branches, cur, wt, symref, remoteHead>>
       ELSE End("Error", "add") /\ UNCHANGED repoVars

\* A createPR that goes on to the push whatever the commit returned.
Commit_Unchecked(ok) ==
    /\ pc = "commit"
    /\ Issue("commit")
    /\ Fault(ok)
    /\ PublishFrame
    /\ UNCHANGED remoteVars
    /\ Goto("push")
    /\ IF ok /\ staged /\ wt # HeadTree
       THEN /\ branches' = [branches EXCEPT ![cur] = wt]
            /\ staged' = FALSE
            /\ UNCHANGED <<exists, cur, wt, symref, remoteHead>>
       ELSE UNCHANGED repoVars

\* createPR: git commit -m <commitMsg>; nothing staged is an error.
Commit(ok) ==
    /\ pc = "commit"
    /\ Issue("commit")
    /\ Fault(ok)
    /\ PublishFrame
    /\ UNCHANGED remoteVars
    /\ IF ok /\ staged /\ wt # HeadTree
       THEN /\ branches' = [branches EXCEPT ![cur] = wt]
            /\ staged' = FALSE
            /\ Goto("push")
            /\ UNCHANGED <<exists, cur, wt, symref, remoteHead>>
       ELSE End("Error", "commit") /\ UNCHANGED repoVars

\* A createPR that returns to the default branch when the push fails.
Push_ThenRestore(ok) ==
    /\ pc = "push"
    /\ Issue("push")
    /\ Fault(ok)
    /\ PublishFrame
    /\ IF ok /\ branchName \notin DOMAIN remote
       THEN /\ remote' = With(remote, branchName, HeadTree)
            /\ Goto("pr")
            /\ UNCHANGED <<origin, prs, repoVars>>
       ELSE /\ End("Error", "push")
            /\ DoCheckout(defaultBranch)
            /\ UNCHANGED remoteVars

\* createPR: git push -u origin <branchName>; a remote branch of that name
\* holding another commit rejects the push.
Push(ok) ==
    /\ pc = "push"
    /\ Issue("push")
    /\ Fault(ok)
    /\ PublishFrame
    /\ UNCHANGED repoVars
    /\ IF ok /\ branchName \notin DOMAIN remote
       THEN /\ remote' = With(remote, branchName, HeadTree)
            /\ Goto("pr")
            /\ UNCHANGED <<origin, prs>>
       ELSE End("Error", "push") /\ UNCHANGED remoteVars

\* createPR: gh pr create.
OpenPR(ok) ==
    /\ pc = "pr"
    /\ Issue("pr")
    /\ Fault(ok)
    /\ PublishFrame
    /\ UNCHANGED repoVars
    /\ IF ok
       THEN /\ prs' = Append(prs, branchName)
            /\ Goto("restore")
            /\ UNCHANGED <<origin, remote>>
       ELSE End("Error", "pr") /\ UNCHANGED remoteVars

\* createPR: git checkout <defaultBranch>.
Restore(ok) ==
    /\ pc = "restore"
    /\ Issue("restore")
    /\ Fault(ok)
    /\ PublishFrame
    /\ UNCHANGED remoteVars
    /\ IF ok /\ CanCheckout(defaultBranch)
       THEN DoCheckout(defaultBranch) /\ End("Published", "none")
       ELSE End("Error", "restore") /\ UNCHANGED repoVars

\* ------------------------------------------------------------ get command
CmdFrame ==
    UNCHANGED <<remoteVars, env, localVars, ctlVars, drift, gate, idLog, extVars>>

\* getCmd.processRepo: checkoutDefaultBranch for a cloned repository (guard,
\* default branch, checkout), clone otherwise.
GetProcess(okStatus, okCmd) ==
    /\ pc = "get"
    /\ CmdFrame
    /\ UNCHANGED stale
    /\ IF exists
       THEN IF ~okStatus
            THEN /\ okCmd
                 /\ Fault(FALSE)
                 /\ End("Error", "status")
                 /\ UNCHANGED <<repoVars, trace>>
            ELSE IF checkUncommitted
            THEN /\ okCmd
                 /\ End("Error", "dirty")
                 /\ UNCHANGED <<repoVars, trace, faulted>>
            ELSE /\ Issue("checkout")
                 /\ Fault(okCmd)
                 /\ IF okCmd /\ CanCheckout(getDefaultBranch)
                    THEN DoCheckout(getDefaultBranch) /\ Goto("get_stale")
                    ELSE End("Error", "checkout") /\ UNCHANGED repoVars
       ELSE /\ okStatus
            /\ Issue("clone")
            /\ Fault(okCmd)
            /\ IF okCmd
               THEN /\ exists' = TRUE
                    /\ branches' = (remoteHead :> origin)
                    /\ cur' = remoteHead
                    /\ wt' = origin
                    /\ symref' = SymrefOf(remoteHead)
                    /\ Goto("get_stale")
                    /\ UNCHANGED <<staged, remoteHead>>
               ELSE End("Error", "clone") /\ UNCHANGED repoVars

\* A stale removal that does not look at the directory's working tree.
GetStale_NoGuard(okStatus, okRm) ==
    /\ pc = "get_stale"
    /\ CmdFrame
    /\ UNCHANGED repoVars
    /\ okStatus
    /\ IF stale = "none"
       THEN /\ okRm
            /\ End("Done", "none")
            /\ UNCHANGED <<stale, trace, faulted>>
       ELSE /\ Issue("remove")
            /\ Fault(okRm)
            /\ IF okRm
               THEN stale' = "none" /\ End("Done", "none")
               ELSE End("Error", "remove") /\ UNCHANGED stale

\* getCmd.removeStaleRepos over the stale sibling directory.
GetStale(okStatus, okRm) ==
    /\ pc = "get_stale"
    /\ CmdFrame
    /\ UNCHANGED repoVars
    /\ IF stale = "none"
       THEN /\ okStatus /\ okRm
            /\ End("Done", "none")
            /\ UNCHANGED <<stale, trace, faulted>>
       ELSE IF ~okStatus
       THEN /\ okRm
            /\ Fault(FALSE)
            /\ End("Error", "status")
            /\ UNCHANGED <<stale, trace>>
       ELSE IF stale = "dirty"
       THEN /\ okRm
            /\ End("Error", "stale-dirty")
            /\ UNCHANGED <<stale, trace, faulted>>
       ELSE /\ Issue("remove")
            /\ Fault(okRm)
            /\ IF okRm
               THEN stale' = "none" /\ End("Done", "none")
               ELSE End("Error", "remove") /\ UNCHANGED stale

\* ---------------------------------------------------------- reset command
\* resetCmd.Run: git reset --hard (a directory that does not exist is
\* skipped).
ResetHard(ok) ==
    /\ pc = "reset"
    /\ CmdFrame
    /\ UNCHANGED stale
    /\ IF ~exists
       THEN /\ ok
            /\ End("Done", "none")
            /\ UNCHANGED <<repoVars, trace, faulted>>
       ELSE /\ Issue("reset")
            /\ Fault(ok)
            /\ IF ok
               THEN /\ wt' = RestoreTracked(wt, HeadTree)
                    /\ staged' = FALSE
                    /\ Goto("reset_checkout")
                    /\ UNCHANGED <<exists, branches, cur, symref, remoteHead>>
               ELSE End("Error", "reset") /\ UNCHANGED repoVars

\* resetCmd.Run: checkout of the default branch.
ResetCheckout(ok) ==
    /\ pc = "reset_checkout"
    /\ CmdFrame
    /\ UNCHANGED stale
    /\ Issue("checkout")
    /\ Fault(ok)
    /\ IF ok /\ CanCheckout(getDefaultBranch)
       THEN DoCheckout(getDefaultBranch) /\ Goto("reset_pull")
       ELSE End("Error", "checkout") /\ UNCHANGED repoVars

\* resetCmd.Run: git pull.
ResetPull(ok) ==
    /\ pc = "reset_pull"
    /\ CmdFrame
    /\ UNCHANGED stale
    /\ Issue("pull")
    /\ Fault(ok)
    /\ IF ok /\ CanPull
       THEN DoPull /\ End("Done", "none")
       ELSE End("Error", "pull") /\ UNCHANGED repoVars

\* ------------------------------------------------------------ environment
\* Between two commands: upstream releases new pins and versions (once
\* between two commands).
UpstreamMoves ==
    /\ pc = "idle"
    /\ run > 0 /\ run < MaxRuns
    /\ env < MaxEnv
    /\ "upstream" \notin drift
    /\ env' = env + 1
    /\ drift' = drift \cup {"upstream"}
    /\ UNCHANGED <<repoVars, remoteVars, stale, run, cmd, pc, outcome,
                   failedAt, localVars, trace, faulted, prev, driftBefore,
                   start, gate, idLog, extVars>>

\* Between two commands: a proposal is merged into the remote default
\* branch.
MergeProposal ==
    /\ pc = "idle"
    /\ run > 0 /\ run < MaxRuns
    /\ \E b \in DOMAIN remote :
          /\ origin # remote[b]
          /\ origin' = remote[b]
    /\ drift' = drift \cup {"merge"}
    /\ UNCHANGED <<repoVars, remote, prs, env, stale, run, cmd, pc, outcome,
                   failedAt, localVars, trace, faulted, prev, driftBefore,
                   start, gate, idLog, extVars>>

\* Between two commands: the directory is replaced by a fresh clone (the
\* same fleet on another machine).
FreshClone == (remoteHead :> origin)

Reclone ==
    /\ pc = "idle"
    /\ run > 0 /\ run < MaxRuns
    /\ exists
    /\ DOMAIN branches # {remoteHead}
    /\ branches' = FreshClone
    /\ cur' = remoteHead
    /\ wt' = origin
    /\ symref' = SymrefOf(remoteHead)
    /\ staged' = FALSE
    /\ drift' = drift \cup {"reclone"}
    /\ UNCHANGED <<exists, remoteHead, remoteVars, env, stale, run, cmd, pc,
                   outcome, failedAt, localVars, trace, faulted, prev,
                   driftBefore, start, gate, idLog, extVars>>

\* ------------------------------------------------------------------- Next
\* The update command, run repeatedly on the repository, and what happens
\* upstream between two runs.
UpdateStep ==
    \/ \E ok \in BOOLEAN : UpdateRun(ok)
    \/ \E ok \in BOOLEAN : Guard(ok)
    \/ \E a, b \in BOOLEAN : ResolveBranch(a, b)
    \/ \E ok \in BOOLEAN : Pull(ok)
    \/ \E ok \in BOOLEAN : Step1(ok)
    \/ \E ok \in BOOLEAN : Step2(ok)
    \/ \E ok \in BOOLEAN : Step3(ok)
    \/ \E ok \in BOOLEAN : Step4(ok)
    \/ \E q \in QueryFaults : Detect(q[1], q[2])
    \/ \E q \in QueryFaults : GenName(q[1], q[2])
    \/ \E a, b \in BOOLEAN : Dedup(a, b)
    \/ \E ok \in BOOLEAN : CreateBranch(ok)
    \/ \E ok \in BOOLEAN : Stage(ok)
    \/ \E ok \in BOOLEAN : Commit(ok)
    \/ \E ok \in BOOLEAN : Push(ok)
    \/ \E ok \in BOOLEAN : OpenPR(ok)
    \/ \E ok \in BOOLEAN : Restore(ok)

Next ==
    \/ StartCmd("update", "none", MaxRuns)
    \/ UpdateStep
    \/ UpstreamMoves
    \/ MergeProposal
    \/ Reclone

Spec == Init /\ [][Next]_vars

\* Any of the three commands, on a repository in any initial condition.
NextCmds ==
    \/ \E c \in {"get", "update", "reset"}, st \in {"none", "clean", "dirty"} :
          StartCmd(c, st, MaxCmds)
    \/ UpdateStep
    \/ \E a, b \in BOOLEAN : GetProcess(a, b)
    \/ \E a, b \in BOOLEAN : GetStale(a, b)
    \/ \E ok \in BOOLEAN : ResetHard(ok)
    \/ \E ok \in BOOLEAN : ResetCheckout(ok)
    \/ \E ok \in BOOLEAN : ResetPull(ok)

SpecCmds == Init /\ [][NextCmds]_vars

\* ------------------------------------------------------------------ groups
\* A group: its repository list (one path per line) and its directory.  A
\* path is the sequence of its '/'-separated segments.
Names == {"a", "b", "c"}

\* os.ReadDir returns the entries sorted by name.
EntryOrder == <<"a", "b", "c">>

Paths == {<<"bep", "a">>, <<"fork", "a">>, <<"bep", "b">>, <<"bad">>}

\* What a name stands for in the group directory: nothing, a regular file,
\* a directory without .git, a git repository with a clean or a dirty tree.
EntryKinds == {"none", "file", "plain", "clean", "dirty"}

repoNameFromPath(repo) == IF Len(repo) # 2 THEN "" ELSE repo[2]

\* A dirExists that takes every name for a directory.
dirExists_Always(name) == TRUE

\* dirExists(filepath.Join(groupDir, name)).
dirExists(name) == groupDir[name] \in {"plain", "clean", "dirty"}

Lists == UNION {[1..n -> Paths] : n \in 0..MaxList}

\* A count of the list lines gone through, well-formed or not.
repoCount_Lines == pos

\* Number of repositories the iterator has yielded so far.
repoCount == Cardinality({i \in 1..pos : repoNameFromPath(repoList[i]) # ""})

\* One operation on an entry of the group: what was run, on which name, the
\* kind of entry it found, the list line being processed, and its result.
Op(op, name, ok) ==
    [op |-> op, name |-> name, kind |-> groupDir[name], at |-> pos + 1,
     ok |-> ok]

Logged(op, name, ok) == opLog' = Append(opLog, Op(op, name, ok))

\* A group is given to a command of the program; the single repository of
\* the other specifications is not cloned.
InitFleet ==
    /\ RepoInit
    /\ ~exists
    /\ origin = PlainTree
    /\ remoteHead = Main
    /\ NoJoin
    /\ repoList \in Lists
    /\ groupDir \in [Names -> EntryKinds]
    /\ pos = 0
    /\ expected = {}
    /\ epos = 0
    /\ opLog = <<>>
    /\ NoFn

GroupFrame ==
    UNCHANGED <<repoVars, remoteVars, env, stale, localVars, ctlVars, trace,
                drift, gate, idLog, joinVars, fnVars, proc>>

\* main: get or update is started on the group.
StartGroup(c) ==
    /\ pc = "idle"
    /\ run = 0
    /\ run' = 1
    /\ cmd' = c
    /\ pc' = IF c = "update" THEN "deps" ELSE "group"
    /\ outcome' = "running"
    /\ failedAt' = "none"
    /\ UNCHANGED <<repoVars, remoteVars, env, stale, localVars, trace, faulted,
                   prev, drift, driftBefore, start, gate, idLog, extVars>>

\* The places of updateCmd.Run that return an error before the loop.
StartupStages == {"ghat", "gh", "goversion"}

StartupFrame ==
    UNCHANGED <<repoVars, remoteVars, env, stale, localVars, ctlVars, drift,
                gate, idLog, extVars>>

\* An updateCmd.Run that does not look for the tools.
CheckDeps_Skip(missing) ==
    /\ pc = "deps"
    /\ missing = "none"
    /\ StartupFrame
    /\ Goto("goversion")
    /\ UNCHANGED <<trace, faulted>>

\* updateCmd.Run: shellCommandExists("ghat"), then shellCommandExists("gh");
\* missing names the tool that is not installed.
CheckDeps(missing) ==
    /\ pc = "deps"
    /\ StartupFrame
    /\ faulted' = (faulted \/ missing # "none")
    /\ trace' = trace \o (IF missing = "ghat" THEN << "ghat" >>
                          ELSE << "ghat", "gh" >>)
    /\ IF missing = "none" THEN Goto("goversion") ELSE End("Error", missing)

\* updateCmd.Run: parseGoVersion on the base directory's go.mod.
ParseGoVersion(ok) ==
    /\ pc = "goversion"
    /\ StartupFrame
    /\ Issue("parse")
    /\ Fault(ok)
    /\ IF ok THEN Goto("group") ELSE End("Error", "goversion")

\* The failure injected into one iteration: none, the list file cannot be
\* read, the status query fails, the operation itself fails.
Failures == {"none", "read", "status", "op"}

\* getCmd.processGroup: one iteration of the loop over ReposInGroup, with
\* processRepo (checkoutDefaultBranch or clone) for the repository yielded.
processGroup(fail) ==
    /\ pc = "group"
    /\ cmd = "get"
    /\ GroupFrame
    /\ UNCHANGED <<run, epos, repoList>>
    /\ IF fail = "read"
       THEN /\ pos = 0
            /\ faulted' = TRUE
            /\ End("Done", "none")
            /\ UNCHANGED <<groupDir, pos, expected, opLog>>
       ELSE IF pos = Len(repoList)
       THEN /\ fail = "none"
            /\ IF repoCount = 0 THEN End("Done", "none") ELSE Goto("stale")
            /\ UNCHANGED <<groupDir, pos, expected, opLog, faulted>>
       ELSE LET name == repoNameFromPath(repoList[pos + 1]) IN
            IF name = ""
            THEN /\ fail = "none"
                 /\ pos' = pos + 1
                 /\ Goto("group")
                 /\ UNCHANGED <<groupDir, expected, opLog, faulted>>
            ELSE /\ expected' = expected \cup {name}
                 /\ IF dirExists(name)
                    THEN IF fail = "status" \/ groupDir[name] = "plain"
                         THEN /\ fail \in {"none", "status"}
                              /\ Logged("status", name, FALSE)
                              /\ faulted' = TRUE
                              /\ End("Error", "status")
                              /\ UNCHANGED <<groupDir, pos>>
                         ELSE IF groupDir[name] = "dirty"
                         THEN /\ fail = "none"
                              /\ Logged("guard", name, FALSE)
                              /\ End("Error", "dirty")
                              /\ UNCHANGED <<groupDir, pos, faulted>>
                         ELSE /\ Logged("checkout", name, fail # "op")
                              /\ Fault(fail # "op")
                              /\ UNCHANGED groupDir
                              /\ IF fail # "op"
                                 THEN pos' = pos + 1 /\ Goto("group")
                                 ELSE End("Error", "checkout") /\ UNCHANGED pos
                    ELSE /\ fail \in {"none", "op"}
                         /\ LET ok == fail # "op" /\ groupDir[name] = "none" IN
                            /\ Logged("clone", name, ok)
                            /\ Fault(ok)
                            /\ IF ok
                               THEN /\ groupDir' =
                                         [groupDir EXCEPT ![name] = "clean"]
                                    /\ pos' = pos + 1
                                    /\ Goto("group")
                               ELSE /\ End("Error", "clone")
                                    /\ UNCHANGED <<groupDir, pos>>

\* A stale removal that does not consult the expected set.
removeStaleRepos_All(fail) ==
    /\ pc = "stale"
    /\ GroupFrame
    /\ UNCHANGED <<run, pos, expected, repoList>>
    /\ fail \in {"none"}
    /\ UNCHANGED faulted
    /\ IF epos = Len(EntryOrder)
       THEN End("Done", "none") /\ UNCHANGED <<groupDir, epos, opLog>>
       ELSE LET name == EntryOrder[epos + 1] IN
            IF groupDir[name] = "clean"
            THEN /\ Logged("remove", name, TRUE)
                 /\ groupDir' = [groupDir EXCEPT ![name] = "none"]
                 /\ epos' = epos + 1
                 /\ Goto("stale")
            ELSE /\ epos' = epos + 1
                 /\ Goto("stale")
                 /\ UNCHANGED <<groupDir, opLog>>

\* getCmd.removeStaleRepos: one iteration of the loop over the directory
\* entries.
removeStaleRepos(fail) ==
    /\ pc = "stale"
    /\ GroupFrame
    /\ UNCHANGED <<run, pos, expected, repoList>>
    /\ IF epos = Len(EntryOrder)
       THEN /\ fail = "none"
            /\ End("Done", "none")
            /\ UNCHANGED <<groupDir, epos, opLog, faulted>>
       ELSE LET name == EntryOrder[epos + 1] IN
            IF \/ groupDir[name] \in {"none", "file"}
               \/ name \in expected
               \/ groupDir[name] = "plain"
            THEN /\ fail = "none"
                 /\ epos' = epos + 1
                 /\ Goto("stale")
                 /\ UNCHANGED <<groupDir, opLog, faulted>>
            ELSE IF fail = "status"
            THEN /\ Logged("status", name, FALSE)
                 /\ faulted' = TRUE
                 /\ End("Error", "status")
                 /\ UNCHANGED <<groupDir, epos>>
            ELSE IF groupDir[name] = "dirty"
            THEN /\ fail = "none"
                 /\ Logged("guard", name, FALSE)
                 /\ End("Error", "stale-dirty")
                 /\ UNCHANGED <<groupDir, epos, faulted>>
            ELSE /\ fail \in {"none", "op"}
                 /\ Logged("remove", name, fail # "op")
                 /\ Fault(fail # "op")
                 /\ IF fail # "op"
                    THEN /\ groupDir' = [groupDir EXCEPT ![name] = "none"]
                         /\ epos' = epos + 1
                         /\ Goto("stale")
                    ELSE /\ End("Error", "remove")
                         /\ UNCHANGED <<groupDir, epos>>

\* A fleet loop that goes on to the next repository after an error.
UpdateRepos_KeepGoing(fail) ==
    /\ pc = "group"
    /\ cmd = "update"
    /\ GroupFrame
    /\ UNCHANGED <<run, epos, repoList, expected, groupDir>>
    /\ fail \in {"none", "op"}
    /\ IF pos = Len(repoList)
       THEN /\ fail = "none"
            /\ End(IF faulted THEN "Error" ELSE "Done", "none")
            /\ UNCHANGED <<pos, opLog, faulted>>
       ELSE LET name == repoNameFromPath(repoList[pos + 1]) IN
            /\ pos' = pos + 1
            /\ Goto("group")
            /\ IF name = "" \/ ~dirExists(name)
               THEN fail = "none" /\ UNCHANGED <<opLog, faulted>>
               ELSE /\ Logged("update", name, fail # "op")
                    /\ Fault(fail # "op")

\* updateCmd.Run: one iteration of the loop over Repos, with updateRepo as
\* a whole (its guard, then the pipeline ending in success or in an error).
UpdateRepos(fail) ==
    /\ pc = "group"
    /\ cmd = "update"
    /\ GroupFrame
    /\ UNCHANGED <<run, epos, repoList, expected, groupDir>>
    /\ IF fail = "read"
       THEN /\ pos = 0
            /\ faulted' = TRUE
            /\ End("Done", "none")
            /\ UNCHANGED <<pos, opLog>>
       ELSE IF pos = Len(repoList)
       THEN /\ fail = "none"
            /\ End("Done", "none")
            /\ UNCHANGED <<pos, opLog, faulted>>
       ELSE LET name == repoNameFromPath(repoList[pos + 1]) IN
            IF name = "" \/ ~dirExists(name)
            THEN /\ fail = "none"
                 /\ pos' = pos + 1
                 /\ Goto("group")
                 /\ UNCHANGED <<opLog, faulted>>
            ELSE IF fail = "status" \/ groupDir[name] = "plain"
            THEN /\ fail \in {"none", "status"}
                 /\ Logged("status", name, FALSE)
                 /\ faulted' = TRUE
                 /\ End("Error", "status")
                 /\ UNCHANGED pos
            ELSE IF groupDir[name] = "dirty"
            THEN /\ fail = "none"
                 /\ Logged("guard", name, FALSE)
                 /\ End("Error", "dirty")
                 /\ UNCHANGED <<pos, faulted>>
            ELSE /\ Logged("update", name, fail # "op")
                 /\ Fault(fail # "op")
                 /\ IF fail # "op"
                    THEN pos' = pos + 1 /\ Goto("group")
                    ELSE End("Error", "update") /\ UNCHANGED pos

\* get or update over one group of repositories.
NextFleet ==
    \/ \E c \in {"get", "update"} : StartGroup(c)
    \/ \E missing \in {"none", "ghat", "gh"} : CheckDeps(missing)
    \/ \E ok \in BOOLEAN : ParseGoVersion(ok)
    \/ \E fail \in Failures : processGroup(fail)
    \/ \E fail \in Failures : removeStaleRepos(fail)
    \/ \E fail \in Failures : UpdateRepos(fail)

SpecFleet == InitFleet /\ [][NextFleet]_vars

\* The same, with every external command returning and the loops going on
\* to their next iteration: a step that can be taken is taken.
SpecFleetLive == SpecFleet /\ WF_vars(NextFleet)

\* --------------------------------------------------------- gitjoin version
\* The update command of the gitjoin version: --force, an optional Go
\* version, and the flags runUpdateSteps returns.  Guard, branch resolution,
\* pull, identity, dedup and createPR are the same code as above.
InitJoin ==
    /\ RepoInit
    /\ force \in BOOLEAN
    /\ goVersion \in BOOLEAN
    /\ result = NoResult
    /\ changed = {}
    /\ NoFleet
    /\ NoFn

JoinFrame ==
    UNCHANGED <<exists, branches, cur, staged, symref, remoteHead, remoteVars,
                env, stale, localVars, ctlVars, drift, gate, idLog, fleetVars,
                fnVars, proc, force, goVersion>>

\* The step named has run to its end: its flag (if any) is set, and it is
\* recorded when it altered the working tree.
Ran(step, flag) ==
    /\ result' = IF flag = "none" THEN result
                 ELSE [IF step = "step1" THEN NoResult ELSE result
                          EXCEPT ![flag] = TRUE]
    /\ changed' = (IF step = "step1" THEN {} ELSE changed)
                     \cup (IF wt' # wt THEN {step} ELSE {})

\* The step named was skipped or returned an error.
NotRan(step) ==
    /\ result' = IF step = "step1" THEN NoResult ELSE result
    /\ changed' = IF step = "step1" THEN {} ELSE changed

\* Step 1: needs a Go version and test.yml; sets UpdatedGoVersions.
JoinStep1(ok) ==
    /\ pc = "step1"
    /\ JoinFrame
    /\ IF goVersion /\ hasTestYml
       THEN /\ Issue("step1")
            /\ IF updateTestYml(wt["ty"]) = wt["ty"]
               THEN /\ ok
                    /\ Goto("step2")
                    /\ UNCHANGED <<wt, faulted>>
                    /\ Ran("step1", "UpdatedGoVersions")
               ELSE /\ Fault(ok)
                    /\ IF ok
                       THEN /\ wt' = [wt EXCEPT !["ty"] = updateTestYml(@)]
                            /\ Goto("step2")
                            /\ Ran("step1", "UpdatedGoVersions")
                       ELSE /\ End("Error", "step1")
                            /\ UNCHANGED wt
                            /\ NotRan("step1")
       ELSE /\ ok
            /\ Goto("step2")
            /\ UNCHANGED <<wt, trace, faulted>>
            /\ NotRan("step1")

\* Step 2: needs the workflows directory; sets UpdatedGitHubActions.
JoinStep2(ok) ==
    /\ pc = "step2"
    /\ JoinFrame
    /\ IF hasWorkflowsDir
       THEN /\ Issue("step2")
            /\ Fault(ok)
            /\ IF ok
               THEN /\ wt' = [wt EXCEPT !["ty"] = runGhat(@),
                                        !["wf"] = runGhat(@)]
                    /\ Goto("step3")
                    /\ Ran("step2", "UpdatedGitHubActions")
               ELSE /\ End("Error", "step2")
                    /\ UNCHANGED wt
                    /\ NotRan("step2")
       ELSE /\ ok
            /\ Goto("step3")
            /\ UNCHANGED <<wt, trace, faulted>>
            /\ NotRan("step2")

\* A step 3 that edits go.mod whether or not a Go version is known.
JoinStep3_NoVersion(ok) ==
    /\ pc = "step3"
    /\ JoinFrame
    /\ IF hasGoMod
       THEN /\ Issue("step3")
            /\ Fault(ok)
            /\ IF ok
               THEN /\ wt' = [wt EXCEPT !["gm"] = goModEdit(@)]
                    /\ Goto("step4")
                    /\ Ran("step3", "UpdatedGoMod")
               ELSE /\ End("Error", "step3")
                    /\ UNCHANGED wt
                    /\ NotRan("step3")
       ELSE /\ ok
            /\ Goto("step4")
            /\ UNCHANGED <<wt, trace, faulted>>
            /\ NotRan("step3")

\* Step 3: needs a Go version and go.mod; sets UpdatedGoMod.
JoinStep3(ok) ==
    /\ pc = "step3"
    /\ JoinFrame
    /\ IF goVersion /\ hasGoMod
       THEN /\ Issue("step3")
            /\ Fault(ok)
            /\ IF ok
               THEN /\ wt' = [wt EXCEPT !["gm"] = goModEdit(@)]
                    /\ Goto("step4")
                    /\ Ran("step3", "UpdatedGoMod")
               ELSE /\ End("Error", "step3")
                    /\ UNCHANGED wt
                    /\ NotRan("step3")
       ELSE /\ ok
            /\ Goto("step4")
            /\ UNCHANGED <<wt, trace, faulted>>
            /\ NotRan("step3")

\* Step 4: needs a Go version and go.mod; sets no flag.
JoinStep4(ok) ==
    /\ pc = "step4"
    /\ JoinFrame
    /\ IF goVersion /\ hasGoMod
       THEN /\ Issue("step4")
            /\ Fault(ok)
            /\ IF ok
               THEN /\ wt' = [wt EXCEPT !["gm"] = goGetMod(@),
                                        !["gs"] = goGetSum(goGetMod(wt["gm"]))]
                    /\ Goto("detect")
                    /\ Ran("step4", "none")
               ELSE /\ End("Error", "step4")
                    /\ UNCHANGED wt
                    /\ NotRan("step4")
       ELSE /\ ok
            /\ Goto("detect")
            /\ UNCHANGED <<wt, trace, faulted>>
            /\ NotRan("step4")

\* Outcomes of the three status queries of the update list (test.yml twice,
\* go.mod and go.sum): all answer, or one of them fails.
JoinQueryFaults == {<<TRUE, TRUE, TRUE>>, <<FALSE, TRUE, TRUE>>,
                    <<TRUE, FALSE, TRUE>>, <<TRUE, TRUE, FALSE>>}

\* updateRepo: the update list, one entry per flag whose file is changed.
JoinUpdateList(okTy, okGa, okGm) ==
    (IF result.UpdatedGoVersions /\ testYmlChanged(okTy)
        THEN << "Go versions" >> ELSE <<>>)
    \o (IF result.UpdatedGitHubActions /\ testYmlChanged(okGa)
           THEN << "GitHub Actions" >> ELSE <<>>)
    \o (IF result.UpdatedGoMod /\ goModChanged(okGm)
           THEN << "go.mod, dependencies" >> ELSE <<>>)

\* updateRepo: `len(updates) < 2 && !cmd.Force`.
TooFew(list) == Len(list) < 2 /\ ~force

\* updateRepo: the gate.  No update: return nil.  Fewer than two without
\* --force: `git checkout .` and return nil.
JoinDetect(okTy, okGa, okGm, okCo) ==
    /\ pc = "detect"
    /\ okTy \/ result.UpdatedGoVersions
    /\ okGa \/ result.UpdatedGitHubActions
    /\ okGm \/ result.UpdatedGoMod
    /\ updates' = JoinUpdateList(okTy, okGa, okGm)
    /\ gate' = [gate EXCEPT !.detected = TRUE, !.diff = Status(Files)]
    /\ IF NoUpdates(JoinUpdateList(okTy, okGa, okGm))
       THEN /\ okCo
            /\ faulted' = (faulted \/ ~okTy \/ ~okGa \/ ~okGm)
            /\ End("NoOp", "none")
            /\ UNCHANGED <<wt, trace>>
       ELSE IF TooFew(JoinUpdateList(okTy, okGa, okGm))
       THEN /\ Issue("revert")
            /\ faulted' = (faulted \/ ~okTy \/ ~okGa \/ ~okGm \/ ~okCo)
            /\ IF okCo
               THEN /\ wt' = RestoreTracked(wt, HeadTree)
                    /\ End("TooFew", "none")
               ELSE End("Error", "revert") /\ UNCHANGED wt
       ELSE /\ okCo
            /\ faulted' = (faulted \/ ~okTy \/ ~okGa \/ ~okGm)
            /\ Goto("genname")
            /\ UNCHANGED <<wt, trace>>
    /\ UNCHANGED <<exists, branches, cur, staged, symref, remoteHead,
                   remoteVars, env, stale, defaultBranch, branchName, ctlVars,
                   drift, idLog, extVars>>

NextJoin ==
    \/ StartCmd("update", "none", MaxCmds)
    \/ \E ok \in BOOLEAN : UpdateRun(ok)
    \/ \E ok \in BOOLEAN : Guard(ok)
    \/ \E a, b \in BOOLEAN : ResolveBranch(a, b)
    \/ \E ok \in BOOLEAN : Pull(ok)
    \/ \E ok \in BOOLEAN : JoinStep1(ok)
    \/ \E ok \in BOOLEAN : JoinStep2(ok)
    \/ \E ok \in BOOLEAN : JoinStep3(ok)
    \/ \E ok \in BOOLEAN : JoinStep4(ok)
    \/ \E q \in JoinQueryFaults, ok \in BOOLEAN : JoinDetect(q[1], q[2], q[3], ok)
    \/ \E q \in QueryFaults : GenName(q[1], q[2])
    \/ \E a, b \in BOOLEAN : Dedup(a, b)
    \/ \E ok \in BOOLEAN : CreateBranch(ok)
    \/ \E ok \in BOOLEAN : Stage(ok)
    \/ \E ok \in BOOLEAN : Commit(ok)
    \/ \E ok \in BOOLEAN : Push(ok)
    \/ \E ok \in BOOLEAN : OpenPR(ok)
    \/ \E ok \in BOOLEAN : Restore(ok)

SpecJoin == InitJoin /\ [][NextJoin]_vars

\* -------------------------------------------------------- single functions
\* getDefaultBranch, updateTestYml and the formatting of the branch name,
\* each applied once to an input drawn from a set.

\* refs/remotes/origin/HEAD as `git symbolic-ref` prints it, or no pointer.
Pointers == {NoRef, SymrefOf(Main), SymrefOf(Master), SymrefOf(Trunk)}

BranchSets == (SUBSET {Main, Master, Trunk}) \ {{}}

\* A version string as strings.Split(version, ".") sees it: the sequence
\* of its parts.  A part is <<"int", n>> (the decimal digits of n),
\* <<"padded", n>> (the digits of n after leading zeros) or <<"word", 0>>
\* (something strconv.Atoi rejects).
Num(n) == <<"int", n>>

Word == <<"word", 0>>

V(major, minor) == << Num(major), Num(minor) >>

\* strconv.Atoi of a part.
Atoi(part) == [err |-> part[1] = "word", n |-> part[2]]

\* The Go versions parseGoVersion returns (`\d+\.\d+`); in a list a
\* version stands for `major.minor.x`.
Versions == {V(1, 0), V(1, 1), V(1, 21), V(1, 22)}

\* The payloads of `go-version: [...]` lists.
Payloads == {<<>>, << V(1, 21) >>, << V(1, 21), V(1, 22) >>,
             << V(1, 20), V(1, 21) >>, << V(1, 0), V(1, 1) >>}

\* test.yml text: a `go-version: [...]` occurrence with its payload, a
\* go-version key with a block list (no brackets), other text.
TextTokens == {<<"list", p>> : p \in Payloads}
                 \cup {<<"block", <<>>>>, <<"other", <<>>>>}

Texts == UNION {[1..n -> TextTokens] : n \in 0..MaxText}

\* Number of hexadecimal digits of a 64-bit value.
Width == 16

\* 64-bit values with z leading zero digits.
Fingerprints ==
    {[i \in 1..Width |-> IF i <= z THEN 0 ELSE d] : z \in 0..Width,
                                                    d \in {1, 10, 15}}

\* The strings prevGoVersion is applied to: the versions, and strings with
\* one part, three parts, a minor that is not a number, a minor with
\* leading zeros, a major that is not a number.
VersionStrings ==
    Versions \cup
        {<< Num(1) >>, << Word >>, << Num(1), Num(22), Num(3) >>,
         << Num(1), Word >>, << Num(1), <<"padded", 5>> >>,
         << Num(1), <<"padded", 0>> >>, << Word, Num(3) >>}

\* A prevGoVersion that returns its input.
prevGoVersion_Same(v) == v

\* A prevGoVersion that subtracts without looking at the sign.
prevGoVersion_NoFloor(v) ==
    IF Len(v) # 2 THEN v
    ELSE IF Atoi(v[2]).err THEN v
    ELSE << v[1], Num(Atoi(v[2]).n - 1) >>

\* prevGoVersion: the input unless it has two parts and the second is a
\* number above 0; then the first part, a dot and the number minus one
\* printed with %d.
prevGoVersion(v) ==
    IF Len(v) # 2 THEN v
    ELSE IF Atoi(v[2]).err \/ Atoi(v[2]).n <= 0 THEN v
    ELSE << v[1], Num(Atoi(v[2]).n - 1) >>

\* updateTestYml: newVersions, and re.ReplaceAllString over the text.
newVersions(v) == << prevGoVersion(v), v >>

ReplaceTok(tok, v) == IF tok[1] = "list" THEN <<"list", newVersions(v)>> ELSE tok

ReplaceAllString(original, v) ==
    [i \in 1..Len(original) |-> ReplaceTok(original[i], v)]

\* updateTestYml: `result == original` returns before the write.
Unchanged_Never(rewritten, original) == FALSE

Unchanged(rewritten, original) == rewritten = original

\* One of the three functions is about to be applied to its input; the
\* inputs of the other two are fixed.
\* The inputs of generateBranchName: a working tree whose test.yml and
\* go.mod hold some bytes, over a commit in which each of the two files is
\* either the same (unchanged) or missing (changed), one of them at least
\* being changed.  The bytes of go.mod are bytes test.yml can hold too.
YmlBytes == {TextTok, GoDirective(1)}

ModBytes == {GoDirective(1)}

YmlContents == UNION {[1..n -> YmlBytes] : n \in 1..MaxText}

ModContents == UNION {[1..n -> ModBytes] : n \in 1..MaxText}

NameInputs ==
    {[head |-> Tree(hty, Absent, hgm, Absent),
      work |-> Tree(ty, Absent, gm, Absent)] :
        <<ty, gm, hty, hgm>> \in
            {q \in YmlContents \X ModContents
                      \X (YmlContents \cup {Absent})
                      \X (ModContents \cup {Absent}) :
                /\ q[3] \in {q[1], Absent}
                /\ q[4] \in {q[2], Absent}
                /\ q[3] = Absent \/ q[4] = Absent}}

InitFn ==
    /\ \E fn \in {"fn-branch", "fn-rewrite", "fn-format", "genname",
                   "fn-prev"} :
          /\ pc = fn
          /\ IF fn = "fn-branch"
             THEN /\ symref \in Pointers
                  /\ \E names \in BranchSets :
                        /\ branches = [b \in names |-> PlainTree]
                        /\ cur \in names
             ELSE /\ symref = SymrefOf(Main)
                  /\ cur = Main
                  /\ IF fn = "genname"
                     THEN \E in \in NameInputs :
                             /\ branches = (Main :> in.head)
                             /\ wt = in.work
                     ELSE branches = (Main :> PlainTree)
          /\ fn # "genname" => wt = PlainTree
          /\ IF fn = "fn-rewrite"
             THEN version \in Versions /\ text \in Texts
             ELSE IF fn = "fn-prev"
             THEN version \in VersionStrings /\ text = <<>>
             ELSE version = V(1, 22) /\ text = <<>>
          /\ IF fn = "fn-format"
             THEN sum \in Fingerprints
             ELSE sum = [i \in 1..Width |-> 0]
    /\ prevVersion = <<>>
    /\ written = text
    /\ ret = NoRet
    /\ exists = TRUE
    /\ origin = PlainTree
    /\ remoteHead = Main
    /\ IdleInit
    /\ NoJoin
    /\ NoFleet

FnFrame ==
    UNCHANGED <<repoVars, remoteVars, env, stale, updates, ctlVars, trace,
                faulted, drift, gate, idLog, joinVars, fleetVars, version,
                text, sum, proc>>

\* updateCmd.Run: cmd.PrevVersion = prevGoVersion(goVersion).
ApplyPrevGoVersion ==
    /\ pc = "fn-prev"
    /\ FnFrame
    /\ prevVersion' = prevGoVersion(version)
    /\ End("Done", "none")
    /\ UNCHANGED <<defaultBranch, branchName, written, ret>>

\* getDefaultBranch applied to the repository.
ApplyDefaultBranch ==
    /\ pc = "fn-branch"
    /\ FnFrame
    /\ defaultBranch' = getDefaultBranch
    /\ End("Done", "none")
    /\ UNCHANGED <<branchName, written, ret, prevVersion>>

\* updateTestYml applied to the text; okRead and okWrite are the results of
\* os.ReadFile and os.WriteFile.
ApplyUpdateTestYml(okRead, okWrite) ==
    /\ pc = "fn-rewrite"
    /\ FnFrame
    /\ UNCHANGED <<defaultBranch, branchName, prevVersion>>
    /\ IF ~okRead
       THEN /\ okWrite
            /\ ret' = [NoRet EXCEPT !.err = TRUE]
            /\ End("Error", "read")
            /\ UNCHANGED written
       ELSE IF Unchanged(ReplaceAllString(text, version), text)
       THEN /\ okWrite
            /\ ret' = [NoRet EXCEPT !.read = TRUE]
            /\ End("Done", "none")
            /\ UNCHANGED written
       ELSE IF okWrite
       THEN /\ written' = ReplaceAllString(text, version)
            /\ ret' = [read |-> TRUE, wrote |-> TRUE, updated |-> TRUE,
                       err |-> FALSE]
            /\ End("Done", "none")
       ELSE /\ ret' = [read |-> TRUE, wrote |-> TRUE, updated |-> FALSE,
                       err |-> TRUE]
            /\ End("Error", "write")
            /\ UNCHANGED written

\* generateBranchName's Sprintf applied to the fingerprint.
ApplyFormat ==
    /\ pc = "fn-format"
    /\ FnFrame
    /\ branchName' = <<"mygithelper/update-">> \o Hex(sum)
    /\ End("Done", "none")
    /\ UNCHANGED <<defaultBranch, written, ret, prevVersion>>

\* generateBranchName is given a second input, once.
SecondInput(in) ==
    /\ pc = "dedup"
    /\ run = 0
    /\ run' = 1
    /\ branches' = (Main :> in.head)
    /\ wt' = in.work
    /\ Goto("genname")
    /\ UNCHANGED <<exists, cur, staged, symref, remoteHead, remoteVars, env,
                   stale, localVars, cmd, prev, driftBefore, start, trace,
                   faulted, drift, gate, idLog, extVars>>

NextFn ==
    \/ ApplyDefaultBranch
    \/ \E a, b \in BOOLEAN : ApplyUpdateTestYml(a, b)
    \/ ApplyFormat
    \/ ApplyPrevGoVersion
    \/ GenName(TRUE, TRUE)
    \/ \E in \in NameInputs : SecondInput(in)

SpecFn == InitFn /\ [][NextFn]_vars

\* ---------------------------------------------------------------- re-runs
\* The update command re-run on one repository with nothing happening in
\* between, where the only commands that can fail are the two that talk to
\* the hosting service at the end of createPR: git push and gh pr create.
NextRetry ==
    \/ StartCmd("update", "none", MaxRetry)
    \/ UpdateRun(TRUE)
    \/ Guard(TRUE)
    \/ ResolveBranch(TRUE, TRUE)
    \/ Pull(TRUE)
    \/ Step1(TRUE)
    \/ Step2(TRUE)
    \/ Step3(TRUE)
    \/ Step4(TRUE)
    \/ Detect(TRUE, TRUE)
    \/ GenName(TRUE, TRUE)
    \/ Dedup(TRUE, TRUE)
    \/ CreateBranch(TRUE)
    \/ Stage(TRUE)
    \/ Commit(TRUE)
    \/ \E ok \in BOOLEAN : Push(ok)
    \/ \E ok \in BOOLEAN : OpenPR(ok)
    \/ Restore(TRUE)

SpecRetry == Init /\ [][NextRetry]_vars

\* ---------------------------------------------------------------- process
\* os.Args[1]: absent, one of the three commands, or another word.
Commands == {"get", "update", "reset"}

Args == Commands \cup {"missing", "bogus"}

\* fatalf: the diagnostic goes to stderr and the process exits with 1.
fatalf(diag) ==
    proc' = [proc EXCEPT !.at = "exited", !.stderr = diag, !.status = 1]

MainFrame ==
    UNCHANGED <<repoVars, remoteVars, env, stale, pc, outcome, failedAt,
                localVars, ctlVars, trace, faulted, drift, gate, idLog,
                joinVars, fleetVars, fnVars>>

\* main up to the switch: the argument count, the working directory, the
\* configuration, the command word.
MainStart(a, okWd, okCfg) ==
    /\ proc.at = "start"
    /\ MainFrame
    /\ IF a = "missing" THEN fatalf("usage")
       ELSE IF ~okWd THEN
          proc' = [proc EXCEPT !.args = a, !.at = "exited",
                               !.stderr = "getwd", !.status = 1]
       ELSE IF ~okCfg THEN
          proc' = [proc EXCEPT !.args = a, !.cfg = "failed", !.at = "exited",
                               !.stderr = "config", !.status = 1]
       ELSE IF a \notin Commands THEN
          proc' = [proc EXCEPT !.args = a, !.cfg = "loaded", !.at = "exited",
                               !.stderr = "unknown", !.status = 1]
       ELSE
          proc' = [proc EXCEPT !.args = a, !.cfg = "loaded", !.at = "switch"]

\* main: the switch calls the Run of the command named.
Dispatch(st) ==
    /\ proc.at = "switch"
    /\ run = 0
    /\ StartCmd(proc.args, st, MaxCmds)

\* A main that returns normally whatever Run returned.
MainExit_Zero ==
    /\ proc.at = "switch"
    /\ run > 0
    /\ pc = "idle"
    /\ MainFrame
    /\ proc' = [proc EXCEPT !.at = "exited"]

\* main after the switch: cmdErr != nil goes to fatalf, otherwise main
\* returns and the status is 0.
MainExit ==
    /\ proc.at = "switch"
    /\ run > 0
    /\ pc = "idle"
    /\ MainFrame
    /\ IF outcome = "Error"
       THEN fatalf("command")
       ELSE proc' = [proc EXCEPT !.at = "exited"]

NextMain ==
    \/ \E a \in Args, okWd, okCfg \in BOOLEAN : MainStart(a, okWd, okCfg)
    \/ \E st \in {"none", "clean", "dirty"} : Dispatch(st)
    \/ UpdateStep
    \/ \E a, b \in BOOLEAN : GetProcess(a, b)
    \/ \E a, b \in BOOLEAN : GetStale(a, b)
    \/ \E ok \in BOOLEAN : ResetHard(ok)
    \/ \E ok \in BOOLEAN : ResetCheckout(ok)
    \/ \E ok \in BOOLEAN : ResetPull(ok)
    \/ MainExit

SpecMain == Init /\ [][NextMain]_vars

\* ----------------------------------------------------------------- claims
\* The running or the last command is an update, and nothing has happened
\* to the repository or upstream since it ended.
InUpdate == cmd = "update" /\ drift = {}

Issued(op) == \E i \in 1..Len(trace) : trace[i] = op

\* The update command has returned with result o.
Ended(o) == InUpdate /\ pc = "idle" /\ outcome = o

\* No part of a proposal has been made by the current command: no createPR
\* step issued, no new local branch, no new remote branch, no new request.
NoProposalWork ==
    /\ \A op \in PublishStages : ~Issued(op)
    /\ DOMAIN branches = start.branches
    /\ DOMAIN remote = start.remote
    /\ Len(prs) = start.prs

\* The command is still at or before the Workspace Guard, or has returned
\* an error from there: nothing has been issued.
StoppedAtGuard ==
    /\ trace = <<>>
    /\ pc \in {"update", "guard", "idle"}
    /\ pc = "idle" => outcome = "Error"

\* C1 -- Guard precedence: when the status query reports an entry as
\* updateRepo starts, updateRepo returns an error and no checkout, pull,
\* mutation step, branch creation, commit, push or review request happens:
\* nothing is issued, and the repository and the remote stay as they were.
C1_GuardPrecedence ==
    (InUpdate /\ start.mods # {}) =>
        /\ StoppedAtGuard
        /\ NoProposalWork
        /\ wt = start.wt
        /\ cur = start.cur

C1_Witness ==
    /\ Ended("Error")
    /\ start.mods # {}
    /\ failedAt = "dirty"

C3_TerminalStatesClean ==
    (/\ InUpdate
     /\ pc = "idle"
     /\ outcome \in {"NoOp", "Skipped", "Published"}
     /\ ~faulted) =>
        /\ cur = defaultBranch
        /\ Status(Files) = {}
        /\ outcome = "Published" =>
              /\ branchName \in DOMAIN remote
              /\ Len(prs) > start.prs
              /\ prs[Len(prs)] = branchName

\* C4 -- No-op safety: when the mutation steps have left no diff in the
\* repository, updateRepo returns success as NoOp and creates no branch, no
\* commit, no push and no review request.
C4_NoOpSafety ==
    (InUpdate /\ gate.detected /\ gate.diff = {}) =>
        /\ pc = "idle"
        /\ outcome = "NoOp"
        /\ failedAt = "none"
        /\ NoProposalWork

C4_Witness ==
    /\ Ended("NoOp")
    /\ gate.detected
    /\ gate.diff = {}
    /\ Issued("step1")
    /\ Issued("step4")

\* C5 -- Dedup safety: when the remote already has a branch named by the
\* identity computed from the working tree, the pipeline reverts every change
\* the mutation steps made (modified and newly created files alike), returns
\* success as Skipped and makes no branch, commit, push or review request.
\* (Stated for runs in which no external command failed.)
C5_DedupRevertsAll ==
    (/\ InUpdate
     /\ pc = "idle"
     /\ gate.reached
     /\ gate.remoteHad
     /\ ~faulted) =>
        /\ outcome = "Skipped"
        /\ Status(Files) = {}
        /\ NoProposalWork

\* C6 -- The identity covers the bytes of every changed file: when the
\* branch named by the identity is already on the remote, no changed file of
\* the working tree (test.yml, another workflow file, go.mod, go.sum) differs
\* from that branch, so a proposal with different content is never
\* deduplicated against it.  (Stated for runs without a failing command.)
C6_IdentityCoversChangedFiles ==
    (/\ InUpdate
     /\ gate.reached
     /\ gate.remoteHad
     /\ ~faulted
     /\ ~prev.faulted) =>
        gate.differs = {}

FailedBefore(stages) ==
    /\ InUpdate
    /\ prev.outcome = "Error"
    /\ prev.failedAt \in stages
    /\ "reclone" \notin driftBefore

\* C9 (as stated) -- After a publish failure at branch creation, staging,
\* commit, push or review-request creation, the next update run stops at the
\* Workspace Guard with an error, before any checkout, pull or mutation step.
C9_NextRunStopsAtGuard == FailedBefore(PublishStages) => StoppedAtGuard

\* C9 (amended) -- After a failure at branch creation, staging or commit the
\* next run stops at the Workspace Guard.  After a failure at push or
\* review-request creation the tree is clean on the proposal branch: the
\* next run finds nothing at the guard, and the first thing it issues is the
\* checkout of the default branch.
C9_LeftoverCaughtBeforePush ==
    /\ FailedBefore({"branch", "add", "commit"}) =>
          /\ StoppedAtGuard
          /\ Status(Files) # {}
    /\ FailedBefore({"push", "pr"}) =>
          /\ pc \in {"update", "guard"} =>
                /\ Status(Files) = {}
                /\ cur # getDefaultBranch
          /\ failedAt # "dirty"
          /\ (pc \notin {"update", "guard", "resolve", "idle"}
                \/ (pc = "idle"
                      /\ failedAt \notin {"deps", "status", "rev-parse"})) =>
                (Len(trace) > 0 /\ trace[1] = "checkout")

C9_Witness ==
    /\ FailedBefore({"commit"})
    /\ pc = "idle"
    /\ outcome = "Error"
    /\ failedAt = "dirty"
    /\ staged

\* Every file modified or created in the working tree when the command
\* started still has that content.
LocalWorkKept == \A f \in start.mods : wt[f] = start.wt[f]

\* C10 (as stated) -- No command discards uncommitted local work: for get,
\* update and reset, the modifications present in the working tree when the
\* command starts are still present when it ends.
C10_NoCommandDiscards ==
    cmd \in {"get", "update", "reset"} => LocalWorkKept

\* C10 (amended) -- get and update never discard uncommitted local work: the
\* modifications present at their start stay in the working tree, and a
\* stale directory with uncommitted changes is not removed.  reset discards
\* the modifications of tracked files (git reset --hard) and keeps the files
\* git does not track.
C10_GetUpdateKeepLocalWork ==
    /\ cmd \in {"get", "update"} =>
          /\ LocalWorkKept
          /\ start.stale = "dirty" => stale = "dirty"
    /\ cmd = "reset" =>
          \A f \in start.untracked : wt[f] = start.wt[f]

C10_Witness ==
    /\ cmd = "get"
    /\ start.mods # {}
    /\ start.stale = "dirty"
    /\ pc = "idle"
    /\ outcome = "Error"
    /\ failedAt = "dirty"
    /\ wt = start.wt

\* The names of the well-formed lines of the group's repository list.
ListedNames ==
    {repoNameFromPath(repoList[i]) : i \in 1..Len(repoList)} \ {""}

Removed(name) == \E i \in 1..Len(opLog) :
                    opLog[i].op = "remove" /\ opLog[i].name = name

\* C11 -- Stale removal is guarded: removeStaleRepos removes an entry only
\* when it is a git repository directory with a clean tree whose name is not
\* in the expected set of the list; and a get that went through the directory with a stale dirty repository in it ends
\* with an error, the directory still there.
C11_StaleRemovalGuarded ==
    cmd = "get" =>
        /\ \A i \in 1..Len(opLog) :
              opLog[i].op = "remove" =>
                  /\ opLog[i].kind = "clean"
                  /\ opLog[i].name \notin ListedNames
        /\ (pc = "idle" /\ outcome = "Done" /\ epos = Len(EntryOrder)) =>
              \A n \in Names \ ListedNames : groupDir[n] # "dirty"
        /\ failedAt = "stale-dirty" =>
              /\ outcome = "Error"
              /\ opLog[Len(opLog)].op = "guard"
              /\ groupDir[opLog[Len(opLog)].name] = "dirty"

C11_Witness ==
    /\ cmd = "get"
    /\ pc = "idle"
    /\ outcome = "Error"
    /\ failedAt = "stale-dirty"
    /\ Removed("a")
    /\ groupDir["b"] \in {"plain", "clean"}
    /\ groupDir["c"] = "dirty"

\* The createPR steps in the order of the code.
PublishOrder == <<"branch", "add", "commit", "push", "pr", "restore">>

IsPublishOp(op) == \E i \in 1..Len(PublishOrder) : PublishOrder[i] = op

\* The createPR steps the current run has issued, in the order issued.
PublishTrace == SelectSeq(trace, IsPublishOp)

\* The tree of the default branch as the current run resolved and pulled it.
DefaultTree == branches[defaultBranch]

\* C12 -- Publisher ordering: createPR issues create-branch, stage, commit,
\* push, open-request, checkout-default in that order, each only after the
\* previous one succeeded: staging only on the newly created branch, a push
\* only with a commit on that branch, a review request only with the branch
\* pushed, the checkout back only with the request opened.
C12_PublisherOrdering ==
    InUpdate =>
        /\ PublishTrace = SubSeq(PublishOrder, 1, Len(PublishTrace))
        /\ Issued("add") =>
              /\ branchName \in DOMAIN branches
              /\ branchName \notin start.branches
        /\ Issued("commit") => (staged \/ branches[branchName] # DefaultTree)
        /\ Issued("push") =>
              /\ ~staged
              /\ branches[branchName] # DefaultTree
        /\ Issued("pr") =>
              /\ branchName \in DOMAIN remote
              /\ branchName \notin start.remote
              /\ remote[branchName] = branches[branchName]
        /\ Issued("restore") =>
              /\ Len(prs) = start.prs + 1
              /\ prs[Len(prs)] = branchName

C12_Witness ==
    /\ Ended("Published")
    /\ PublishTrace = PublishOrder
    /\ remote[branchName] # DefaultTree

\* The files in which the working tree differs from the default branch.
ChangesKept == {f \in Files : wt[f] # DefaultTree[f]}

\* C13 -- Publish failure handling: when branch creation, staging, commit,
\* push or review-request creation fails, the command returns the error at
\* once, the failed step is the last one issued (no checkout back), and
\* nothing is undone: the changes of the mutation steps, the local branch,
\* the commit and the pushed branch stay as they are.
C13_PublishFailureKeepsState ==
    (InUpdate /\ pc = "idle" /\ failedAt \in PublishStages) =>
        /\ outcome = "Error"
        /\ trace[Len(trace)] = failedAt
        /\ ChangesKept = gate.diff
        /\ failedAt = "branch" => cur = defaultBranch
        /\ failedAt \in {"add", "commit", "push", "pr"} =>
              /\ cur = branchName
              /\ branchName \in DOMAIN branches
        /\ failedAt \in {"push", "pr"} => branches[branchName] = wt
        /\ failedAt = "pr" =>
              /\ branchName \in DOMAIN remote
              /\ remote[branchName] = wt
        /\ Len(prs) = start.prs

C13_Witness ==
    /\ Ended("Error")
    /\ failedAt = "pr"
    /\ cur = branchName
    /\ branchName \in DOMAIN remote
    /\ branchName \notin start.remote
    /\ ChangesKept # {}

\* The mutation steps and the commands issued after them.
MutationSteps == {"step1", "step2", "step3", "step4"}

\* The working tree that steps 1, 1-2 and 1-3 leave when they succeed on
\* the pulled default branch.
After1 ==
    IF hasTestYml THEN [DefaultTree EXCEPT !["ty"] = updateTestYml(@)]
    ELSE DefaultTree

After2 ==
    IF hasWorkflowsDir
    THEN [After1 EXCEPT !["ty"] = runGhat(@), !["wf"] = runGhat(@)]
    ELSE After1

After3 ==
    IF hasGoMod THEN [After2 EXCEPT !["gm"] = goModEdit(@)] ELSE After2

\* C17 -- Mutation step failure: when a mutation step fails, updateRepo
\* returns the error, the failed step is the last thing issued (no later
\* step, no change detection, no identity, no dedup revert, no publisher
\* step), and the changes of the steps before it stay in the working tree.
C17_StepFailureStopsAndKeeps ==
    (InUpdate /\ pc = "idle" /\ failedAt \in MutationSteps) =>
        /\ outcome = "Error"
        /\ trace[Len(trace)] = failedAt
        /\ ~gate.detected
        /\ ~gate.reached
        /\ updates = <<>>
        /\ branchName = NoBranch
        /\ ~Issued("revert")
        /\ NoProposalWork
        /\ cur = defaultBranch
        /\ failedAt = "step1" => wt = DefaultTree
        /\ failedAt = "step2" => wt = After1
        /\ failedAt = "step3" => wt = After2
        /\ failedAt = "step4" => wt = After3

C17_Witness ==
    /\ Ended("Error")
    /\ failedAt = "step3"
    /\ Issued("step1")
    /\ Issued("step2")
    /\ wt["ty"] # DefaultTree["ty"]
    /\ wt = After2

\* C20 -- No swallowed error: an update run in which an external operation
\* failed (a status query of the change detector or of the identity, the
\* remote-branch query, a git or tool command) ends with an error.
C20_FailureEndsInError ==
    (InUpdate /\ pc = "idle" /\ run > 0 /\ faulted) => outcome = "Error"

\* The operations run for a line of the list; those of the stale removal
\* are logged past its end.
ListOps == {i \in 1..Len(opLog) : opLog[i].at <= Len(repoList)}

\* C18 -- Fail-fast across the fleet: the repositories are taken in listing
\* order, each operation on the repository of the line it was run for; an
\* operation that returned an error is the last one of the run, the run has
\* ended with that error, and no line after it has been looked at.
C18_FailFastInListOrder ==
    /\ \A i \in 1..Len(opLog) :
          /\ opLog[i].at <= pos + 1
          /\ ~opLog[i].ok =>
                /\ i = Len(opLog)
                /\ pc = "idle"
                /\ outcome = "Error"
                /\ i \in ListOps => pos = opLog[i].at - 1
    /\ \A i \in ListOps :
          /\ opLog[i].at >= 1
          /\ opLog[i].op \in {"status", "guard", "checkout", "clone", "update"}
          /\ opLog[i].name = repoNameFromPath(repoList[opLog[i].at])
          /\ \A j \in ListOps : i < j => opLog[i].at < opLog[j].at
    /\ (pc = "idle" /\ outcome = "Error" /\ failedAt \notin StartupStages) =>
          /\ opLog # <<>>
          /\ ~opLog[Len(opLog)].ok

C18_Witness ==
    /\ cmd = "update"
    /\ pc = "idle"
    /\ outcome = "Error"
    /\ failedAt = "update"
    /\ Len(repoList) = 2
    /\ repoList[1] # repoList[2]
    /\ pos = 0
    /\ Len(opLog) = 1
    /\ repoNameFromPath(repoList[2]) # ""
    /\ groupDir[repoNameFromPath(repoList[2])] = "clean"

\* A line of the list is malformed.
HasMalformed == \E i \in 1..Len(repoList) : repoNameFromPath(repoList[i]) = ""

\* C19 -- Malformed paths rejected first: when the list of a run holds a
\* malformed path, no repository is cloned, checked out, updated or removed
\* by that run, and the run ends with an error.
C19_MalformedRejectedFirst ==
    (HasMalformed /\ run > 0 /\ ~faulted) =>
        /\ opLog = <<>>
        /\ pc = "idle" => outcome = "Error"

\* The update list names the entry given.
HasEntry(e) == \E i \in 1..Len(updates) : updates[i] = e

\* C14 -- Diff-based outcomes: an entry of the update list is there only if
\* the step it names altered a file itself: "Go versions" only if step 1
\* did, "GitHub Actions" only if step 2 did, the go.mod entry only if step 3
\* or step 4 did (in runs where every external command succeeded).
C14_EntriesAreDiffBased ==
    (cmd = "update" /\ gate.detected /\ ~faulted) =>
        /\ HasEntry("Go versions") => "step1" \in changed
        /\ HasEntry("GitHub Actions") => "step2" \in changed
        /\ HasEntry("go.mod, dependencies") =>
              changed \cap {"step3", "step4"} # {}

\* C15 -- Force threshold: without --force the identity, the dedup check
\* and the publisher are reached only with two updates or more; with
\* exactly one update the working-tree changes are reverted and nothing is
\* published; with --force one update is enough to reach the dedup check.
C15_ForceThreshold ==
    cmd = "update" =>
        /\ (~force /\ (pc \in {"genname", "dedup"} \/ gate.reached)) =>
              Len(updates) >= 2
        /\ (~force /\ gate.detected /\ Len(updates) = 1 /\ pc = "idle"
               /\ outcome # "Error") =>
              /\ outcome = "TooFew"
              /\ NoProposalWork
              /\ wt = DefaultTree
        /\ (force /\ gate.detected /\ Len(updates) = 1
               /\ pc \notin {"genname", "dedup"}) =>
              gate.reached

\* The mutation steps in the order of runUpdateSteps.
StepOrder == <<"step1", "step2", "step3", "step4">>

IsStepOp(op) == \E k \in 1..Len(StepOrder) : StepOrder[k] = op

StepIndex(op) == CHOOSE k \in 1..Len(StepOrder) : StepOrder[k] = op

\* The mutation steps the current run has issued, in the order issued.
StepTrace == SelectSeq(trace, IsStepOp)

\* The precondition of step k.
Pre(k) ==
    CASE k = 1 -> goVersion /\ hasTestYml
      [] k = 2 -> hasWorkflowsDir
      [] k = 3 -> goVersion /\ hasGoMod
      [] k = 4 -> goVersion /\ hasGoMod

\* runUpdateSteps of the current run has gone past the place of step k: it
\* is at a later step, has returned, or has returned the error of step k or
\* of a later step.
Decided(k) ==
    \/ \E j \in (k + 1)..Len(StepOrder) : pc = StepOrder[j]
    \/ pc = "detect"
    \/ gate.detected
    \/ pc = "idle" /\ \E j \in k..Len(StepOrder) : failedAt = StepOrder[j]

\* C16 -- Step order: the mutation steps are issued in the order 1, 2, 3,
\* 4, each at most once; once runUpdateSteps is past the place of a step,
\* that step was issued exactly if its precondition holds (file or
\* directory present, and for steps 1, 3 and 4 a Go version known); a step
\* whose precondition is absent is passed without an error.
C16_StepsInOrderByPrecondition ==
    InUpdate =>
        /\ \A i, j \in 1..Len(StepTrace) :
              i < j => StepIndex(StepTrace[i]) < StepIndex(StepTrace[j])
        /\ \A k \in 1..Len(StepOrder) :
              /\ Issued(StepOrder[k]) => Decided(k)
              /\ Decided(k) => (Issued(StepOrder[k]) <=> Pre(k))
              /\ (pc = "idle" /\ failedAt = StepOrder[k]) => Pre(k)

C16_Witness ==
    /\ InUpdate
    /\ ~goVersion
    /\ hasTestYml
    /\ hasWorkflowsDir
    /\ hasGoMod
    /\ gate.detected
    /\ StepTrace = <<"step2">>
    /\ "step2" \in changed

\* C21 -- Tool check first: the update command looks for ghat and gh once,
\* before anything else; when one is missing the run ends with that error,
\* the Go version has not been parsed, no line of the list has been read and
\* no repository operated on; whenever the Go version is parsed or a
\* repository is reached, both tools were looked for, once each, and found.
C21_ToolsCheckedBeforeAnything ==
    cmd = "update" =>
        /\ failedAt \in {"ghat", "gh"} =>
              /\ pc = "idle"
              /\ outcome = "Error"
              /\ trace[Len(trace)] = failedAt
              /\ ~Issued("parse")
              /\ pos = 0
              /\ opLog = <<>>
        /\ (Issued("parse") \/ pc \in {"goversion", "group"} \/ pos > 0
               \/ opLog # <<>>) =>
              /\ Len(trace) >= 2
              /\ SubSeq(trace, 1, 2) = << "ghat", "gh" >>
              /\ failedAt \notin {"ghat", "gh"}
        /\ \A i, j \in 1..Len(trace) : trace[i] = trace[j] => i = j
        /\ opLog # <<>> => trace = << "ghat", "gh", "parse" >>

C21_Witness ==
    /\ cmd = "update"
    /\ pc = "idle"
    /\ failedAt = "gh"
    /\ trace = << "ghat", "gh" >>
    /\ Len(repoList) = 2
    /\ repoNameFromPath(repoList[1]) # ""
    /\ groupDir[repoNameFromPath(repoList[1])] = "clean"

\* getDefaultBranch has been applied.
Resolved == pc = "idle" /\ defaultBranch # NoBranch

\* C22 (as stated) -- Default-branch order, with master only from the probe:
\* the result is master only when there is no recorded pointer, no branch
\* main and a branch master.
C22_MasterOnlyByProbe ==
    (Resolved /\ defaultBranch = Master) =>
        /\ symref = NoRef
        /\ Main \notin DOMAIN branches
        /\ Master \in DOMAIN branches

\* C22 -- Default-branch order: a recorded pointer gives the branch it
\* names (prefix removed), whatever branches exist; without a pointer the
\* result is main if that branch exists, else master if that branch exists,
\* else main unverified; so master is the result exactly when the pointer
\* names master, or there is no pointer, no main and a master; the lookup
\* returns no error.
C22_DefaultBranchOrder ==
    Resolved =>
        /\ outcome = "Done"
        /\ symref # NoRef => SymrefOf(defaultBranch) = symref
        /\ (symref = NoRef /\ Main \in DOMAIN branches) => defaultBranch = Main
        /\ (symref = NoRef /\ Main \notin DOMAIN branches
               /\ Master \in DOMAIN branches) => defaultBranch = Master
        /\ (symref = NoRef /\ Main \notin DOMAIN branches
               /\ Master \notin DOMAIN branches) => defaultBranch = Main
        /\ defaultBranch = Master <=>
              \/ symref = SymrefOf(Master)
              \/ /\ symref = NoRef
                 /\ Main \notin DOMAIN branches
                 /\ Master \in DOMAIN branches

C22_Witness ==
    /\ Resolved
    /\ symref = SymrefOf(Master)
    /\ Main \in DOMAIN branches
    /\ defaultBranch = Master

\* updateTestYml has read the file and returned.
Rewritten == pc = "idle" /\ ret.read

\* Every `go-version: [...]` list of the text already is the new list.
UpToDate ==
    \A i \in 1..Len(text) :
        text[i][1] = "list" => text[i][2] = newVersions(version)

\* C24 -- No-diff rewrite: when every go-version list already is
\* [<prev>.x, <current>.x], or the text has no such list, updateTestYml does
\* not write, leaves the file as it is and returns updated = false and no
\* error; it writes only when the rewritten text differs.
C24_RewriteWritesOnlyOnDiff ==
    Rewritten =>
        /\ UpToDate =>
              /\ ~ret.wrote
              /\ written = text
              /\ ~ret.updated
              /\ ~ret.err
              /\ outcome = "Done"
        /\ ret.wrote => ~UpToDate
        /\ ret.updated => (ret.wrote /\ written # text)

C24_Witness ==
    /\ Rewritten
    /\ version = V(1, 22)
    /\ text = << <<"list", << V(1, 21), V(1, 22) >> >>, <<"block", <<>>>> >>
    /\ written = text
    /\ ~ret.wrote

\* C25 -- Rewrite result: for a toolchain version M.N with N > 0, a
\* successful updateTestYml leaves every `go-version: [...]` occurrence with
\* the payload [M.(N-1).x, M.N.x] and every other piece of text as it was;
\* [1.21.x] with toolchain 1.22 becomes [1.21.x, 1.22.x]; and whenever some
\* list was not already that payload the file differs from the committed
\* one (the change detector reports it).
C25_RewriteResult ==
    (Rewritten /\ ~ret.err /\ version[2][2] > 0) =>
        /\ Len(written) = Len(text)
        /\ \A i \in 1..Len(text) :
              IF text[i][1] = "list"
              THEN written[i] =
                      <<"list", << <<version[1], Num(version[2][2] - 1)>>,
                                  version >> >>
              ELSE written[i] = text[i]
        /\ (version = V(1, 22) /\ text = << <<"list", << V(1, 21) >> >> >>) =>
              written = << <<"list", << V(1, 21), V(1, 22) >> >> >>
        /\ ~UpToDate => (written # text /\ ret.updated)

C25_Witness ==
    /\ Rewritten
    /\ version = V(1, 22)
    /\ text = << <<"list", << V(1, 21) >> >> >>
    /\ written = << <<"list", << V(1, 21), V(1, 22) >> >> >>
    /\ ret.updated

\* C28 -- Fixed-width token: the branch name is the prefix followed by as
\* many hexadecimal digits as a 64-bit value has, whatever the value.
C28_FixedWidthToken ==
    (pc = "idle" /\ branchName # NoBranch /\ sum # <<>>) =>
        /\ branchName[1] = "mygithelper/update-"
        /\ Len(branchName) = 1 + Width

\* The places of updateRepo from the pull to the dedup check.
OnDefaultStages ==
    {"pull", "step1", "step2", "step3", "step4", "detect", "genname", "dedup",
     "branch"}

\* C23 -- Steps on the default branch only: from the pull to the creation
\* of the proposal branch the resolved default branch is checked out; a run
\* that started on another branch issued the checkout before anything else;
\* when that checkout fails the run ends with the error, nothing else was
\* issued (no pull, no step) and the repository is as it was.
C23_StepsOnDefaultBranch ==
    InUpdate =>
        /\ pc \in OnDefaultStages =>
              /\ cur = defaultBranch
              /\ defaultBranch \in DOMAIN branches
        /\ (trace # <<>> /\ start.cur # defaultBranch
               /\ defaultBranch # NoBranch) => trace[1] = "checkout"
        /\ (Issued("pull") /\ ~Issued("branch")) => cur = defaultBranch
        /\ (pc = "idle" /\ failedAt = "checkout") =>
              /\ outcome = "Error"
              /\ trace = << "checkout" >>
              /\ cur = start.cur
              /\ cur # defaultBranch
              /\ wt = start.wt
              /\ NoProposalWork

C23_Witness ==
    /\ InUpdate
    /\ pc = "step2"
    /\ start.cur # defaultBranch
    /\ trace = << "checkout", "pull", "step1" >>
    /\ cur = defaultBranch

\* The dedup check of the current run asked about a branch the remote has
\* and did not take the skip path: its ls-remote failed.
QueryFailedOnExisting ==
    gate.reached /\ gate.remoteHad /\ ~Issued("revert")

\* C30 -- Failed remote query reads as "absent": the skip path (revert, end
\* Skipped) is taken only when the remote has the branch, never because the
\* query failed; when the query about a branch the remote has fails, the
\* answer is false and the run goes on to create the branch, so it ends only
\* inside the publisher, never Skipped and never stopped at the dedup check.
C30_FailedQueryMeansAbsent ==
    InUpdate =>
        /\ Issued("revert") => gate.reached /\ gate.remoteHad
        /\ (gate.reached /\ ~Issued("revert")) =>
              /\ pc = "branch" \/ Issued("branch")
              /\ outcome # "Skipped"
        /\ QueryFailedOnExisting =>
              /\ faulted
              /\ pc = "idle" =>
                    \/ outcome = "Published"
                    \/ outcome = "Error" /\ IsPublishOp(failedAt)

C30_Witness ==
    /\ InUpdate
    /\ QueryFailedOnExisting
    /\ Issued("branch")

\* The previous run failed at the push, and the current run met no failing
\* command.
RerunAfterFailedPush ==
    /\ InUpdate
    /\ prev.outcome = "Error"
    /\ prev.failedAt = "push"
    /\ ~faulted

\* C29 -- Orphaned local branch: the run after a failed push starts on the
\* proposal branch, passes the guard, checks out the default branch first,
\* computes the same branch name, finds it absent from the remote and ends
\* with the error of the branch creation, no request opened. In any run, a
\* branch creation under a name that existed locally at the start fails,
\* and no branch that was local and unpublished at the start of a run is
\* on the remote afterwards: re-running never publishes it.
C29_OrphanBranchBlocksRerun ==
    InUpdate =>
        /\ (RerunAfterFailedPush /\ pc = "idle") =>
              /\ outcome = "Error"
              /\ failedAt = "branch"
              /\ trace # <<>> /\ trace[1] = "checkout"
              /\ branchName = start.cur
              /\ gate.reached /\ ~gate.remoteHad
              /\ branchName \notin DOMAIN remote
              /\ Len(prs) = start.prs
        /\ (Issued("branch") /\ branchName \in start.branches) =>
              /\ pc = "idle"
              /\ outcome = "Error"
              /\ failedAt = "branch"
        /\ \A b \in start.branches :
              b \in DOMAIN remote => b \in start.remote

C29_Witness ==
    /\ RerunAfterFailedPush
    /\ pc = "idle"
    /\ failedAt = "branch"
    /\ branchName = start.cur
    /\ branchName \notin DOMAIN remote

\* A branch was pushed and no request was opened for it.
Range(q) == {q[i] : i \in 1..Len(q)}

PushedWithoutRequest == \E b \in DOMAIN remote : b \notin Range(prs)

\* C27 -- Pushed branch without a request: once a branch is on the remote
\* with no request opened for it, every later run that meets no failing
\* command finds the branch in the dedup check and ends Skipped; it opens
\* no request and reports no error.
C27_LaterRunsSkip ==
    (InUpdate /\ pc = "idle" /\ run >= 2 /\ ~faulted
        /\ PushedWithoutRequest) =>
        /\ outcome = "Skipped"
        /\ gate.reached /\ gate.remoteHad
        /\ Len(prs) = start.prs

\* C26 -- Exit behaviour: the process exits with status 0 or 1 and nothing
\* else; the status is 0 exactly when a command was dispatched and its Run
\* returned no error, and then nothing was written to stderr; it is 1 with a
\* diagnostic on stderr when the command word is missing or unknown, when
\* the working directory or the configuration could not be read (no command
\* is run in these cases), and when Run returned an error.
C26_ExitStatus ==
    proc.at = "exited" =>
        /\ proc.status \in {0, 1}
        /\ proc.status = 0 <=>
              /\ proc.args \in Commands
              /\ proc.cfg = "loaded"
              /\ run = 1 /\ cmd = proc.args
              /\ pc = "idle"
              /\ outcome # "Error"
        /\ proc.status = 0 <=> proc.stderr = "none"
        /\ proc.args = "unset" => proc.stderr = "usage" /\ run = 0
        /\ proc.cfg = "failed" => proc.stderr = "config" /\ run = 0
        /\ proc.args = "bogus" => proc.status = 1 /\ run = 0
        /\ (run > 0 /\ outcome = "Error") => proc.stderr = "command"

C26_Witness ==
    /\ proc.at = "exited"
    /\ proc.args = "update"
    /\ outcome = "Error"
    /\ failedAt = "push"
    /\ proc.status = 1

\* The lines of the list that name a repository.
ValidLines == {i \in 1..Len(repoList) : repoNameFromPath(repoList[i]) # ""}

IsRemoveOp(o) == o.op = "remove"

\* get ended without an error before any line of a non-empty list was gone
\* through: the list file could not be read.
ListUnreadable ==
    pc = "idle" /\ outcome = "Done" /\ pos = 0 /\ Len(repoList) > 0

\* C31 -- No removal for a group without repositories: get enters
\* removeStaleRepos only after the whole list was gone through and yielded
\* a repository; when the list is empty, has malformed lines only, or cannot
\* be read, get ends without an error, no directory entry was looked at for
\* removal and no operation was run on any entry of the group directory.
C31_EmptyListRemovesNothing ==
    (cmd = "get" /\ run = 1) =>
        /\ (pc = "stale" \/ epos > 0 \/ SelectSeq(opLog, IsRemoveOp) # <<>>) =>
              /\ ValidLines # {}
              /\ pos = Len(repoList)
        /\ (ValidLines = {} \/ ListUnreadable) =>
              /\ pc # "stale"
              /\ epos = 0
              /\ opLog = <<>>
              /\ expected = {}
              /\ pc = "idle" => outcome = "Done"

C31_Witness ==
    /\ cmd = "get"
    /\ pc = "idle"
    /\ outcome = "Done"
    /\ Len(repoList) = 2
    /\ pos = 2
    /\ ValidLines = {}
    /\ groupDir["a"] = "clean"
    /\ opLog = <<>>

\* The places of updateRepo after the pull.
AfterPullStages ==
    {"step1", "step2", "step3", "step4", "detect", "genname", "dedup",
     "branch", "add", "commit", "push", "pr", "restore"}

\* Something that updateRepo does after the pull has been done.
PastPull ==
    \/ pc \in AfterPullStages
    \/ \E op \in MutationSteps : Issued(op)
    \/ \E op \in PublishStages : Issued(op)
    \/ Issued("revert")
    \/ gate.detected

IsPull(op) == op = "pull"

\* C32 -- Pull before the steps: the pull is issued once, after the guard
\* found a clean tree and after the default branch was resolved and, when
\* needed, checked out; every step, the change detection, the dedup revert
\* and the publisher come after a pull that succeeded, so the local default
\* branch is at the head of the remote one; a failed pull ends the run
\* with the error as the last thing issued, with no step, no detection, no
\* identity and no publisher step.
C32_PullBeforeSteps ==
    InUpdate =>
        /\ Issued("pull") =>
              /\ start.mods = {}
              /\ defaultBranch # NoBranch
              /\ Len(SelectSeq(trace, IsPull)) = 1
              /\ \/ trace[1] = "pull"
                 \/ /\ Len(trace) >= 2
                    /\ trace[1] = "checkout"
                    /\ trace[2] = "pull"
                    /\ start.cur # defaultBranch
        /\ PastPull =>
              /\ Issued("pull")
              /\ failedAt # "pull"
              /\ branches[defaultBranch] = origin
        /\ (pc = "idle" /\ failedAt = "pull") =>
              /\ outcome = "Error"
              /\ trace[Len(trace)] = "pull"
              /\ \A op \in MutationSteps : ~Issued(op)
              /\ ~gate.detected
              /\ ~gate.reached
              /\ updates = <<>>
              /\ branchName = NoBranch
              /\ ~Issued("revert")
              /\ NoProposalWork
              /\ cur = defaultBranch

C32_Witness ==
    /\ InUpdate
    /\ pc = "idle"
    /\ failedAt = "pull"
    /\ trace = << "checkout", "pull" >>

\* What generateBranchName wrote to the hash in a logged call: the bytes of
\* test.yml if it was changed, directly followed by those of go.mod if it
\* was.
Written(r) == r.ty \o r.gm

\* C33 -- Identity of the plain concatenation: the name depends on nothing
\* but the concatenation of the changed files' bytes; two calls whose
\* concatenations are equal return the same name, whichever file the bytes
\* came from and wherever one file ends and the next begins.
C33_NameOfConcatenation ==
    \A a, b \in idLog : Written(a) = Written(b) => a.name = b.name

\* test.yml = A+B with go.mod = C, and test.yml = A with go.mod = B+C: two
\* different inputs, both files changed in both, with one name.
C33_Witness ==
    \E a, b \in idLog :
        /\ a.tyChanged /\ a.gmChanged
        /\ b.tyChanged /\ b.gmChanged
        /\ Len(a.ty) = 2 /\ Len(a.gm) = 1
        /\ Len(b.ty) = 1 /\ Len(b.gm) = 2
        /\ Written(a) = Written(b)
        /\ a.name = b.name

\* What the claim calls an integer: a part made of decimal digits.
IsInteger(part) == part[1] \in {"int", "padded"}

PrevApplied == pc = "idle" /\ prevVersion # <<>>

\* C35 -- Previous version: for an input of two parts whose second is an
\* integer N > 0 the result is the first part with N - 1; for N = 0, for a
\* second part that is not an integer and for an input that does not have
\* exactly two parts the result is the input; then PrevVersion equals
\* GoVersion, the list written to test.yml names the version twice, and the
\* version given to go mod edit is the current one.
C35_PrevGoVersion ==
    /\ PrevApplied =>
          /\ (Len(version) = 2 /\ IsInteger(version[2])
                 /\ version[2][2] > 0) =>
                prevVersion = << version[1], Num(version[2][2] - 1) >>
          /\ (\/ Len(version) # 2
              \/ ~IsInteger(version[2])
              \/ version[2][2] = 0) => prevVersion = version
          /\ prevVersion = version =>
                newVersions(version) = << version, version >>
    /\ (Rewritten /\ ~ret.err /\ version[2][2] = 0) =>
          \A i \in 1..Len(text) :
              text[i][1] = "list" =>
                  written[i] = <<"list", << version, version >> >>

C35_Witness ==
    /\ PrevApplied
    /\ version = << Num(1), <<"padded", 0>> >>
    /\ prevVersion = version

\* C34 -- Distinct repositories, distinct directories: two operations run
\* for two lines that name different owner/name paths are run on different
\* directories.
C34_DistinctDirectories ==
    ~faulted =>
        \A i, j \in ListOps :
            repoList[opLog[i].at] # repoList[opLog[j].at] =>
                opLog[i].name # opLog[j].name

\* What holds of an update run over the list at any moment: operations are
\* run only on existing directories, one repository at a time in the order
\* of the list and at most one pipeline per line; an operation that
\* returned an error is the last one; nothing is cloned or removed; and a
\* run that ended without an error went through the whole list.
UpdateVisits ==
    /\ \A i \in 1..Len(opLog) :
          /\ opLog[i].op \in {"status", "guard", "update"}
          /\ opLog[i].at \in 1..Len(repoList)
          /\ opLog[i].name = repoNameFromPath(repoList[opLog[i].at])
          /\ opLog[i].kind \in {"plain", "clean", "dirty"}
          /\ \A j \in 1..Len(opLog) : i < j => opLog[i].at < opLog[j].at
          /\ ~opLog[i].ok => (i = Len(opLog) /\ pc = "idle"
                                 /\ outcome = "Error")
    /\ Len(opLog) <= pos + 1
    /\ epos = 0
    /\ (pc = "idle" /\ outcome = "Done") =>
          \/ pos = Len(repoList)
          \/ pos = 0 /\ faulted /\ opLog = <<>>

\* C36 -- Termination of update: with every external command returning,
\* an update run ends; all along it has visited the listed repositories at
\* most once each, in the order of the list, stopped at the first error and
\* run nothing on a repository whose directory does not exist.
C36_UpdateTerminates ==
    /\ [](cmd = "update" => UpdateVisits)
    /\ (cmd = "update") ~> (cmd = "update" /\ pc = "idle")

C36_Witness ==
    /\ cmd = "update"
    /\ pc = "idle"
    /\ outcome = "Done"
    /\ repoList = << <<"bep", "a">>, <<"bep", "b">> >>
    /\ pos = 2
    /\ groupDir["a"] = "none"
    /\ Len(opLog) = 1
    /\ opLog[1].name = "b"
    /\ opLog[1].op = "update"

====
